---------------------------- MODULE Spec2Model ----------------------------
(***************************************************************************)
(* PinStats: the stats cache (utils/statsCache), the content script's      *)
(* request channel (content) and the injector's direct fetcher (injector), *)
(* modelled as state machines.                                             *)
(*                                                                         *)
(* Time is the value of Date.now(), counted in abstract ticks; the         *)
(* millisecond constants of the source are scaled to ticks and the size    *)
(* limits to small numbers, keeping every comparison of the source.        *)
(***************************************************************************)
EXTENDS Integers, Sequences, FiniteSets, TLC

(***************************************************************************)
(* Bounds of the model                                                     *)
(***************************************************************************)
\* last value of the clock
MaxTime == 3
\* initFromStorage calls that may be suspended at one time
MaxLoads == 1

\* longest fetchQueue of the content script
MaxQueue == 3

\* the pin ids (digit strings in the source), one more than the cache holds
PinIDs == {1, 2, 3}

\* largest maxRetries option given to retryWithBackoff
MaxRetriesOption == 4
\* longest time, in ms, followed while fn() has not settled
MaxElapsed == 15000

\* fetchPinStats calls of the fetchBatchParallel invocations under way at one
\* time, counting the calls still to be made
MaxCalls == 4

(***************************************************************************)
(* Program constants (scaled)                                              *)
(***************************************************************************)
\* statsCache: const MAX_CACHE_SIZE = 5000
MAX_CACHE_SIZE == 2
\* statsCache: const CACHE_TTL_MS = 24 * 60 * 60 * 1000
CACHE_TTL_MS == 1

\* content: const MAX_BATCH_SIZE = 20
MAX_BATCH_SIZE == 2

\* injector: const CONCURRENT_LIMIT = 20
CONCURRENT_LIMIT == 2
\* injector: const MAX_FETCHED_PINS = 5000
MAX_FETCHED_PINS == 2
\* injector: const FETCHED_PIN_TTL_MS = 10 * 60 * 1000
FETCHED_PIN_TTL_MS == 1

\* retry: const MAX_RETRIES = 3
MAX_RETRIES == 3
\* retry: const INITIAL_BACKOFF_MS = 1000
INITIAL_BACKOFF_MS == 1000
\* retry: const DEFAULT_TIMEOUT_MS = 10000
DEFAULT_TIMEOUT_MS == 10000

\* an optional value: << >> is undefined, <<v>> is the value v
Undefined == << >>
Some(v) == <<v>>

\* chrome.storage.local without STORAGE_KEY, and with a value under it
NoStorage == [present |-> FALSE, entries |-> << >>]
Stored(entries) == [present |-> TRUE, entries |-> entries]

(***************************************************************************)
(* PinData (types/pinterest): three groups of fields                       *)
(***************************************************************************)
\* a record as passive interception of a feed yields it: reactions only
ReactionsOnlyData ==
  [engagement   |-> [repins |-> 0, comments |-> 0, shares |-> 0, reactions |-> 1],
   details      |-> [title |-> "t"],
   externalData |-> [bookmarked |-> FALSE]]

\* a record as the detail endpoint yields it
DetailedData ==
  [engagement   |-> [repins |-> 1, comments |-> 1, shares |-> 0, reactions |-> 1],
   details      |-> [title |-> "t"],
   externalData |-> [bookmarked |-> FALSE]]

PinDataVals == {ReactionsOnlyData, DetailedData}

\* Partial<PinData> values handed to update
UpdateVals == {[engagement |-> [repins |-> 1, comments |-> 1]]}

\* Partial<PinData> values that give one group some of its fields, another
\* group, or two groups at once
PartialVals ==
  { [engagement |-> [repins |-> 1, comments |-> 1]],
    [externalData |-> [bookmarked |-> TRUE]],
    [details |-> [title |-> "u"], externalData |-> [bookmarked |-> TRUE]] }

\* { ...a, ...b } of JavaScript
Spread(a, b) ==
  [k \in (DOMAIN a) \cup (DOMAIN b) |-> IF k \in DOMAIN b THEN b[k] ELSE a[k]]

\* updates.group || {}
GroupOf(updates, g) == IF g \in DOMAIN updates THEN updates[g] ELSE << >>

\* an update that replaces each group it is given instead of merging it
mergeDataShallow(data, updates) == Spread(data, updates)

\* the value update() assigns to entry.data
mergeData(data, updates) ==
  [k \in (DOMAIN data) \cup (DOMAIN updates) \cup {"engagement", "details", "externalData"} |->
     IF k = "engagement" THEN Spread(data.engagement, GroupOf(updates, "engagement"))
     ELSE IF k = "details" THEN Spread(data.details, GroupOf(updates, "details"))
     ELSE IF k = "externalData" THEN Spread(data.externalData, GroupOf(updates, "externalData"))
     ELSE Spread(data, updates)[k]]

(***************************************************************************)
(* The cache: a JavaScript Map<string, CacheEntry>, kept as the sequence   *)
(* of its entries in insertion order.                                      *)
(***************************************************************************)
VARIABLES
  now,          \* Date.now()
  cache,        \* statsCache: const cache = new Map<string, CacheEntry>()
  initialized,  \* statsCache: let initialized
  loading,      \* initFromStorage calls suspended at chrome.storage.local.get
  storage,      \* chrome.storage.local: NoStorage or Stored(the entries under STORAGE_KEY)
  result,       \* what the last cache operation returned and logged
  touched       \* history: per pin id in the cache, the time of its last access
                \* by set, get or update (or the access time it was loaded with)

cacheVars == <<cache, initialized, loading, storage, result, touched>>

(***************************************************************************)
(* The content script (ISOLATED world): the consumer side of the channel   *)
(***************************************************************************)
VARIABLES
  injectorReady,         \* content: let injectorReady
  pendingFetchRequests,  \* content: const pendingFetchRequests: string[] (the backlog)
  pendingRequests,       \* content: const pendingRequests = new Set<string>()
  fetchQueue,            \* content: let fetchQueue: string[]
  fetchTimer,            \* content: fetchTimer is set and its callback has not run
  continuation,          \* the setTimeout of the timer callback (line 189) is pending
  posted,                \* the pinIDs of the last fetch-stats message posted
  held,                  \* history: the backlog as it was when injector-ready arrived,
                         \* until the first fetch-stats message after it
  unanswered             \* history: ids posted in a fetch-stats message for which no
                         \* pin-stats message has been received since

contentVars == <<injectorReady, pendingFetchRequests, pendingRequests, fetchQueue,
                 fetchTimer, continuation, posted, held, unanswered>>

Keys(m) == {m[i].key : i \in DOMAIN m}

\* Map.has
MapHas(m, k) == k \in Keys(m)

\* Map.get of a key that is present
MapGet(m, k) == m[CHOOSE i \in DOMAIN m : m[i].key = k]

\* Map.set: an existing key keeps its position, a new key goes last
MapSet(m, k, e) ==
  IF MapHas(m, k)
  THEN [i \in DOMAIN m |-> IF m[i].key = k THEN e ELSE m[i]]
  ELSE Append(m, e)

\* Map.delete
MapDelete(m, k) == SelectSeq(m, LAMBDA e : e.key # k)

\* the history of accesses, kept for the ids that are still in the cache m
Touched(t, m) == [id \in PinIDs |-> IF MapHas(m, id) THEN t[id] ELSE -1]

CacheEntry(k, data, ts, la) ==
  [key |-> k, data |-> data, timestamp |-> ts, lastAccessed |-> la]

\* e goes behind every element whose lastAccessed is not greater: a stable sort
InsertByLastAccessed(s, e) ==
  LET n == Cardinality({i \in DOMAIN s : s[i].lastAccessed <= e.lastAccessed
                           /\ \A j \in 1..i : s[j].lastAccessed <= e.lastAccessed})
  IN SubSeq(s, 1, n) \o <<e>> \o SubSeq(s, n + 1, Len(s))

RECURSIVE SortByLastAccessed(_)
\* entries.sort((a, b) => a[1].lastAccessed - b[1].lastAccessed)
SortByLastAccessed(m) ==
  IF m = << >> THEN << >>
  ELSE InsertByLastAccessed(SortByLastAccessed(SubSeq(m, 1, Len(m) - 1)), m[Len(m)])

\* toRemove of evictIfNeeded, the number it logs
toRemove(m) == IF Len(m) <= MAX_CACHE_SIZE THEN 0 ELSE Len(m) - MAX_CACHE_SIZE

\* evictIfNeeded without the sort: the victims are the first inserted
evictFirstInserted(m) ==
  IF Len(m) <= MAX_CACHE_SIZE THEN m
  ELSE SubSeq(m, toRemove(m) + 1, Len(m))

\* evictIfNeeded with the loop one short: for (i = 1; i < toRemove; i++)
evictOneTooFew(m) ==
  IF Len(m) <= MAX_CACHE_SIZE THEN m
  ELSE LET entries == SortByLastAccessed(m)
           victims == {entries[i].key : i \in 2..toRemove(m)}
       IN SelectSeq(m, LAMBDA e : e.key \notin victims)

evictIfNeeded(m) ==
  IF Len(m) <= MAX_CACHE_SIZE THEN m
  ELSE LET entries == SortByLastAccessed(m)
           victims == {entries[i].key : i \in 1..toRemove(m)}
       IN SelectSeq(m, LAMBDA e : e.key \notin victims)

\* the TTL test with >= for >
isExpiredAtTTL(entry, t) == t - entry.timestamp >= CACHE_TTL_MS

\* the TTL test of get, has and removeExpired
isExpired(entry, t) == t - entry.timestamp > CACHE_TTL_MS

\* a sweep that removes nothing
removeExpiredNone(m, t) == m

\* function removeExpired(), with Date.now() = t
removeExpired(m, t) == SelectSeq(m, LAMBDA e : ~isExpired(e, t))

\* op: "get", "has", "set" or "update" with the pin id of the call, "other"
\* for the remaining operations; value: the PinData | undefined returned by
\* get; found: the boolean returned by has, and for set and update whether the
\* id had an entry when the call was made; evicted: the number evictIfNeeded
\* logged; rejects: whether the promise an async operation returned rejects;
\* removed: the number removeExpired logged
Returned(op, id, value, found, evicted) ==
  [op |-> op, id |-> id, value |-> value, found |-> found, evicted |-> evicted,
   rejects |-> FALSE, removed |-> 0]

\* the outcome of initFromStorage, syncToStorage or clearAll: ok is whether
\* the chrome.storage.local call it awaited succeeded
Finished(op, ok) == Returned(op, 0, Undefined, ok, 0)

NoResult == Returned("other", 0, Undefined, FALSE, 0)

----------------------------------------------------------------------------
\* a set that keeps the timestamp of the entry it overwrites
setKeepingTimestamp(pinID, data) ==
  LET ts == IF MapHas(cache, pinID) THEN MapGet(cache, pinID).timestamp ELSE now
      inserted == MapSet(cache, pinID, CacheEntry(pinID, data, ts, now))
  IN /\ cache' = evictIfNeeded(inserted)
     /\ result' = Returned("set", pinID, Undefined, MapHas(cache, pinID), toRemove(inserted))
     /\ touched' = Touched([touched EXCEPT ![pinID] = now], cache')
     /\ UNCHANGED <<now, initialized, loading, storage>>

\* export function set(pinID, data)
set(pinID, data) ==
  LET inserted == MapSet(cache, pinID, CacheEntry(pinID, data, now, now))
  IN /\ cache' = evictIfNeeded(inserted)
     /\ result' = Returned("set", pinID, Undefined, MapHas(cache, pinID), toRemove(inserted))
     /\ touched' = Touched([touched EXCEPT ![pinID] = now], cache')
     /\ UNCHANGED <<now, initialized, loading, storage>>

\* get without the refresh of lastAccessed
getCacheNoTouch(m, pinID, t) ==
  IF ~MapHas(m, pinID) THEN m
  ELSE IF t - MapGet(m, pinID).timestamp > CACHE_TTL_MS THEN MapDelete(m, pinID)
  ELSE m

\* the cache after get(pinID)
getCache(m, pinID, t) ==
  IF ~MapHas(m, pinID) THEN m
  ELSE IF isExpired(MapGet(m, pinID), t) THEN MapDelete(m, pinID)
  ELSE MapSet(m, pinID, [MapGet(m, pinID) EXCEPT !.lastAccessed = t])

\* what get(pinID) returns
getValue(m, pinID, t) ==
  IF ~MapHas(m, pinID) THEN Undefined
  ELSE IF isExpired(MapGet(m, pinID), t) THEN Undefined
  ELSE Some(MapGet(m, pinID).data)

\* export function get(pinID)
get(pinID) ==
  /\ cache' = getCache(cache, pinID, now)
  /\ result' = Returned("get", pinID, getValue(cache, pinID, now), FALSE, 0)
  /\ touched' = Touched([touched EXCEPT ![pinID] = now], cache')
  /\ UNCHANGED <<now, initialized, loading, storage>>

\* a has that counts as an access, refreshing lastAccessed as get does
hasRefreshing(pinID) ==
  /\ cache' = getCache(cache, pinID, now)
  /\ result' = Returned("has", pinID, Undefined,
                        MapHas(cache, pinID) /\ ~isExpired(MapGet(cache, pinID), now), 0)
  /\ touched' = Touched(touched, cache')
  /\ UNCHANGED <<now, initialized, loading, storage>>

\* export function has(pinID)
has(pinID) ==
  /\ cache' = IF MapHas(cache, pinID) /\ isExpired(MapGet(cache, pinID), now)
              THEN MapDelete(cache, pinID) ELSE cache
  /\ result' = Returned("has", pinID, Undefined,
                        MapHas(cache, pinID) /\ ~isExpired(MapGet(cache, pinID), now), 0)
  /\ touched' = Touched(touched, cache')
  /\ UNCHANGED <<now, initialized, loading, storage>>

\* export function update(pinID, updates)
update(pinID, updates) ==
  /\ cache' = IF ~MapHas(cache, pinID) THEN cache
              ELSE MapSet(cache, pinID,
                          [MapGet(cache, pinID) EXCEPT
                             !.data = mergeData(@, updates), !.lastAccessed = now])
  /\ result' = Returned("update", pinID, Undefined, MapHas(cache, pinID), 0)
  /\ touched' = Touched([touched EXCEPT ![pinID] = now], cache')
  /\ UNCHANGED <<now, initialized, loading, storage>>

\* export function clear()
clear ==
  /\ cache' = << >>
  /\ result' = Finished("clear", TRUE)
  /\ touched' = Touched(touched, cache')
  /\ UNCHANGED <<now, initialized, loading, storage>>

\* the body of initFromStorage after the await: stored is result[STORAGE_KEY]
RECURSIVE importStored(_, _, _)
importStored(m, stored, t) ==
  IF stored = << >> THEN m
  ELSE LET pinID == Head(stored).key
           entry == Head(stored).val
           imported ==
             IF "timestamp" \in DOMAIN entry /\ "data" \in DOMAIN entry
             THEN IF t - entry.timestamp < CACHE_TTL_MS
                  THEN MapSet(m, pinID,
                              CacheEntry(pinID, entry.data, entry.timestamp, entry.lastAccessed))
                  ELSE m
             ELSE MapSet(m, pinID, CacheEntry(pinID, entry, t, t))
       IN importStored(imported, Tail(stored), t)

\* export async function initFromStorage(), up to the await
initFromStorageCall ==
  /\ ~initialized
  /\ loading < MaxLoads
  /\ loading' = loading + 1
  /\ result' = NoResult
  /\ UNCHANGED <<now, cache, initialized, storage, touched>>

\* initFromStorage when already initialized
initFromStorageSkip ==
  /\ initialized
  /\ result' = NoResult
  /\ UNCHANGED <<now, cache, initialized, loading, storage, touched>>

\* initFromStorage resumes with the stored value
initFromStorageResume ==
  /\ loading > 0
  /\ loading' = loading - 1
  /\ initialized' = TRUE
  /\ LET imported == importStored(cache, storage.entries, now)
     IN /\ cache' = IF storage.present THEN evictIfNeeded(imported) ELSE cache
        /\ result' = Returned("initFromStorage", 0, Undefined, TRUE,
                              IF storage.present THEN toRemove(imported) ELSE 0)
        /\ touched' =
             [id \in PinIDs |->
                IF ~MapHas(cache', id) THEN -1
                ELSE IF MapHas(cache, id) /\ MapGet(cache, id) = MapGet(imported, id)
                THEN touched[id]
                ELSE MapGet(imported, id).lastAccessed]
  /\ UNCHANGED <<now, storage>>

\* chrome.storage.local.get rejects: the catch branch of initFromStorage
initFromStorageFail ==
  /\ loading > 0
  /\ loading' = loading - 1
  /\ initialized' = TRUE
  /\ result' = Finished("initFromStorage", FALSE)
  /\ UNCHANGED <<now, cache, storage, touched>>

\* the object syncToStorage hands to chrome.storage.local.set
toStore(m) ==
  [i \in DOMAIN m |->
     [key |-> m[i].key,
      val |-> [data |-> m[i].data, timestamp |-> m[i].timestamp,
               lastAccessed |-> m[i].lastAccessed]]]

\* a syncToStorage without its try/catch: a failed write rejects the promise
syncToStorageUncaught(ok) ==
  /\ cache' = removeExpired(cache, now)
  /\ storage' = IF ok THEN Stored(toStore(removeExpired(cache, now))) ELSE storage
  /\ result' = [Finished("syncToStorage", ok) EXCEPT
                  !.rejects = ~ok,
                  !.removed = Len(cache) - Len(removeExpired(cache, now))]
  /\ touched' = Touched(touched, cache')
  /\ UNCHANGED <<now, initialized, loading>>

\* async function syncToStorage(): the periodic flush and syncNow();
\* ok is whether chrome.storage.local.set succeeds
syncToStorage(ok) ==
  /\ cache' = removeExpired(cache, now)
  /\ storage' = IF ok THEN Stored(toStore(removeExpired(cache, now))) ELSE storage
  /\ result' = [Finished("syncToStorage", ok) EXCEPT
                  !.removed = Len(cache) - Len(removeExpired(cache, now))]
  /\ touched' = Touched(touched, cache')
  /\ UNCHANGED <<now, initialized, loading>>

\* the content script's process ends and a fresh one starts: the module is
\* evaluated anew, chrome.storage.local keeps what it holds
restart ==
  /\ cache' = << >>
  /\ initialized' = FALSE
  /\ loading' = 0
  /\ result' = NoResult
  /\ touched' = Touched(touched, cache')
  /\ UNCHANGED <<now, storage>>

\* a clearAll that clears the memory only
clearAllMemoryOnly(ok) ==
  /\ cache' = << >>
  /\ storage' = storage
  /\ result' = Finished("clearAll", ok)
  /\ touched' = Touched(touched, cache')
  /\ UNCHANGED <<now, initialized, loading>>

\* export async function clearAll(); ok is whether chrome.storage.local.remove succeeds
clearAll(ok) ==
  /\ cache' = << >>
  /\ storage' = IF ok THEN NoStorage ELSE storage
  /\ result' = Finished("clearAll", ok)
  /\ touched' = Touched(touched, cache')
  /\ UNCHANGED <<now, initialized, loading>>

(***************************************************************************)
(* The injector (MAIN world): the direct fetcher                           *)
(***************************************************************************)
VARIABLES
  fetchedPins,  \* injector: const fetchedPins = new Map<string, number>(), as the
                \* sequence of its [key, timestamp] entries in insertion order
  batches,      \* the fetchBatchParallel invocations under way, oldest first
  settled       \* history: the fetchPinStats call the last step settled, if any

fetchVars == <<fetchedPins, batches, settled>>

(***************************************************************************)
(* utils/retry                                                             *)
(***************************************************************************)
VARIABLES
  retry,       \* the retryWithBackoff call: its locals, where it stands (pc), and
               \* the history of its fn() calls (invoked) and backoff waits (waits)
  classified   \* history: the last isRetryableError call and its answer

retryVars == <<retry, classified>>

\* Date.now() advances
Tick ==
  /\ now < MaxTime
  /\ now' = now + 1
  /\ result' = NoResult
  /\ UNCHANGED <<cache, initialized, loading, storage, touched>>

----------------------------------------------------------------------------
(***************************************************************************)
(* Injector: extraction of records from response bodies                     *)
(***************************************************************************)
\* JavaScript values as JSON.parse yields them. An array holds primitives;
\* "object" is a plain object; "unprintable" is an object whose toString
\* property is not callable, such as { "toString": 1 }
JsVal(kind, num, text, items) == [kind |-> kind, num |-> num, text |-> text, items |-> items]

JsUndefined == JsVal("undefined", 0, << >>, << >>)
JsNull == JsVal("null", 0, << >>, << >>)
JsNumber(n) == JsVal("number", n, << >>, << >>)
JsString(text) == JsVal("string", 0, text, << >>)
JsBoolean(b) == JsVal("boolean", IF b THEN 1 ELSE 0, << >>, << >>)
JsArray(items) == JsVal("array", 0, << >>, items)
JsObject == JsVal("object", 0, << >>, << >>)
JsUnprintable == JsVal("unprintable", 0, << >>, << >>)

Digits == <<"0", "1", "2", "3", "4", "5", "6", "7", "8", "9">>

RECURSIVE NumberToString(_)
\* Number.prototype.toString of an integer
NumberToString(n) ==
  IF n < 0 THEN <<"-">> \o NumberToString(0 - n)
  ELSE IF n < 10 THEN <<Digits[n + 1]>>
  ELSE NumberToString(n \div 10) \o <<Digits[(n % 10) + 1]>>

\* ToString of a primitive
PrimitiveToString(v) ==
  IF v.kind = "string" THEN v.text
  ELSE IF v.kind = "number" THEN NumberToString(v.num)
  ELSE IF v.kind = "boolean"
  THEN (IF v.num = 1 THEN <<"t", "r", "u", "e">> ELSE <<"f", "a", "l", "s", "e">>)
  ELSE IF v.kind = "null" THEN <<"n", "u", "l", "l">>
  ELSE <<"u", "n", "d", "e", "f", "i", "n", "e", "d">>

RECURSIVE Join(_)
\* Array.prototype.join(','): null and undefined items give the empty string
Join(items) ==
  IF items = << >> THEN << >>
  ELSE (IF Head(items).kind \in {"null", "undefined"} THEN << >>
        ELSE PrimitiveToString(Head(items)))
       \o (IF Len(items) > 1 THEN <<",">> \o Join(Tail(items)) ELSE << >>)

\* whether ToString(v) returns; it throws a TypeError for "unprintable"
Converts(v) == v.kind # "unprintable"

\* ToString(v) of a value that converts
JsToString(v) ==
  IF v.kind = "array" THEN Join(v.items)
  ELSE IF v.kind = "object"
  THEN <<"[", "o", "b", "j", "e", "c", "t", " ", "O", "b", "j", "e", "c", "t", "]">>
  ELSE PrimitiveToString(v)

\* ToBoolean(v)
ToBoolean(v) ==
  IF v.kind \in {"undefined", "null"} THEN FALSE
  ELSE IF v.kind \in {"number", "boolean"} THEN v.num # 0
  ELSE IF v.kind = "string" THEN v.text # << >>
  ELSE TRUE

\* /^\d+$/.test(text)
isDigits(text) ==
  /\ text # << >>
  /\ \A i \in DOMAIN text : \E d \in DOMAIN Digits : Digits[d] = text[i]

\* a ?? b
Coalesce(a, b) == IF a.kind \in {"undefined", "null"} THEN b ELSE a

\* of an optional string, s ?? fallback
OrElse(s, fallback) == IF s = << >> THEN fallback ELSE s[1]

\* a raw object of a response body. Numeric fields are JavaScript values;
\* string fields are absent (<< >>) or present; images is absent or the url of
\* each of orig, 736x, 474x, 236x; videos is absent or the url of each of
\* video_list.V_720P, V_480P; reaction_counts is absent or the counts;
\* saves is aggregated_pin_data.aggregated_stats.saves and comment_count is
\* aggregated_pin_data.comment_count; kids are the object values and array
\* items under the object's other properties, in the order of Object.keys
EmptyRaw ==
  [id |-> JsUndefined, repin_count |-> JsUndefined, saves |-> JsUndefined,
   comment_count |-> JsUndefined, share_count |-> JsUndefined, reaction_counts |-> << >>,
   images |-> << >>, image_large_url |-> << >>, videos |-> << >>,
   created_at |-> << >>, grid_title |-> << >>, closeup_description |-> << >>,
   description |-> << >>, link |-> << >>, carousel_data |-> FALSE, is_video |-> FALSE,
   kids |-> << >>]

RECURSIVE Sum(_)
Sum(counts) == IF counts = << >> THEN 0 ELSE Head(counts) + Sum(Tail(counts))

\* function sumReactions(reactions)
sumReactions(reactions) == IF reactions = << >> THEN 0 ELSE Sum(reactions[1])

RECURSIVE FirstPresent(_)
\* a?.url ?? b?.url ?? ... ?? '' over the urls in urls
FirstPresent(urls) ==
  IF urls = << >> THEN ""
  ELSE IF Head(urls) # << >> THEN Head(urls)[1]
  ELSE FirstPresent(Tail(urls))

\* function calculateAge(dateStr): the dash for no date, otherwise an age
\* computed from the current date
calculateAge(dateStr) == IF dateStr = "" THEN "-" ELSE "0D"

\* function detectPinType(data)
detectPinType(record) ==
  IF record.carousel_data THEN "carousel"
  ELSE IF record.videos # << >> \/ record.is_video THEN "video"
  ELSE "image"

\* what a call returns: threw, or the value (<< >> for null)
Threw == [threw |-> TRUE, value |-> << >>]
Gave(value) == [threw |-> FALSE, value |-> value]

\* originalImageUrl as extractPinData computes it
imageUrlOf(record) ==
  LET fromImages == IF record.images = << >> THEN "" ELSE FirstPresent(record.images[1])
  IN IF fromImages = "" /\ record.image_large_url # << >> /\ record.image_large_url[1] # ""
     THEN record.image_large_url[1]
     ELSE fromImages

\* the record extractPinData builds for an id that passed its test
pinDataOf(record) ==
  LET videoUrl == IF record.videos = << >> THEN "" ELSE FirstPresent(record.videos[1])
      createdAt == OrElse(record.created_at, "")
  IN [engagement |->
        [repins |-> Coalesce(record.repin_count, Coalesce(record.saves, JsNumber(0))),
         comments |-> Coalesce(record.comment_count, JsNumber(0)),
         shares |-> Coalesce(record.share_count, JsNumber(0)),
         reactions |-> sumReactions(record.reaction_counts)],
      details |->
        [id |-> record.id,
         title |-> OrElse(record.grid_title, ""),
         description |-> OrElse(record.closeup_description, OrElse(record.description, "")),
         link |-> OrElse(record.link, ""),
         createdAt |-> createdAt,
         createdAgo |-> calculateAge(createdAt),
         originalImageUrl |-> imageUrlOf(record),
         originalVideoUrl |-> videoUrl,
         isVideo |-> videoUrl # "",
         pinType |-> detectPinType(record)],
      externalData |-> [bookmarked |-> FALSE, savedAt |-> ""]]

\* function extractPinData(record)
extractPinData(record) ==
  IF ~ToBoolean(record.id) THEN Gave(<< >>)
  ELSE IF ~Converts(record.id) THEN Threw
  ELSE IF ~isDigits(JsToString(record.id)) THEN Gave(<< >>)
  ELSE Gave(<<pinDataOf(record)>>)

\* the values of record.id
IdVals ==
  { JsUndefined, JsNull, JsString(<< >>), JsString(<<"7">>), JsString(<<"4", "2">>),
    JsString(<<"0">>), JsString(<<"4", "a">>), JsString(<<"-", "1">>), JsString(<<" ", "7">>),
    JsNumber(0), JsNumber(7), JsNumber(42), JsNumber(0 - 1), JsBoolean(TRUE), JsBoolean(FALSE),
    JsArray(<< >>), JsArray(<<JsString(<<"7">>)>>), JsArray(<<JsNumber(4), JsNumber(2)>>),
    JsObject, JsUnprintable }

\* the other fields of a raw object: none, or some of each group
BodyVals ==
  { EmptyRaw,
    [EmptyRaw EXCEPT !.repin_count = JsNumber(5)],
    [EmptyRaw EXCEPT !.repin_count = JsNull, !.saves = JsNumber(3)],
    [EmptyRaw EXCEPT !.repin_count = JsNumber(0), !.saves = JsNumber(3)],
    [EmptyRaw EXCEPT !.comment_count = JsNumber(2), !.share_count = JsNumber(1),
                     !.reaction_counts = <<<<1, 2>>>>],
    [EmptyRaw EXCEPT !.images = <<<< <<"o">>, <<"m">>, << >>, << >> >>>>],
    [EmptyRaw EXCEPT !.images = <<<< << >>, << >>, << >>, <<"s">> >>>>],
    [EmptyRaw EXCEPT !.images = <<<< << >>, << >>, << >>, << >> >>>>, !.image_large_url = <<"l">>],
    [EmptyRaw EXCEPT !.images = <<<< <<"">>, <<"m">>, << >>, << >> >>>>],
    [EmptyRaw EXCEPT !.videos = <<<< << >>, <<"v">> >>>>, !.created_at = <<"2024-01-01">>],
    [EmptyRaw EXCEPT !.is_video = TRUE, !.grid_title = <<"t">>, !.link = <<"k">>],
    [EmptyRaw EXCEPT !.carousel_data = TRUE, !.description = <<"d">>],
    [EmptyRaw EXCEPT !.closeup_description = <<"c">>, !.description = <<"d">>] }

RawVals == { [body EXCEPT !.id = id] : id \in IdVals, body \in BodyVals }

\* a property of an object, or an array item under it: its key and its value,
\* which is a primitive (prim) or an object (value)
Entry(key, value) == [key |-> key, prim |-> << >>, value |-> value]
PrimEntry(key, v) == [key |-> key, prim |-> <<v>>, value |-> EmptyRaw]

\* the depth below which findAllPins does not look (20 in the code)
DepthLimit == 2

\* ToNumber(v) > 0 of a value that converts: of a number, a boolean, a string
\* of digits or an array holding one of these; NaN compares false
GreaterThanZero(v) ==
  IF v.kind \in {"number", "boolean"} THEN v.num > 0
  ELSE IF v.kind \in {"string", "array"}
  THEN isDigits(JsToString(v)) /\ \E i \in DOMAIN JsToString(v) : JsToString(v)[i] # "0"
  ELSE FALSE

\* record.id && typeof record.id === 'string' && /^\d+$/.test(record.id)
looksLikePin(record) == record.id.kind = "string" /\ isDigits(record.id.text)

\* the pins found so far by one extractAllPins call, or that it threw
Found(pins, seenIDs, threw) == [pins |-> pins, seenIDs |-> seenIDs, threw |-> threw]

\* keepPin without seenIDs.add(pinID)
keepPinUnseen(record, found) ==
  [pins |-> Append(found.pins, [pinID |-> record.id.text, pinData |-> pinDataOf(record)]),
   seenIDs |-> found.seenIDs, threw |-> FALSE]

\* keepPin without the test of the image and the repins
keepPinUnfiltered(record, found) ==
  [pins |-> Append(found.pins, [pinID |-> record.id.text, pinData |-> pinDataOf(record)]),
   seenIDs |-> found.seenIDs \cup {record.id.text}, threw |-> FALSE]

\* the body of if (!seenIDs.has(pinID)) { ... } in findAllPins
keepPin(record, found) ==
  LET pinData == extractPinData(record)
  IN IF pinData.threw THEN [found EXCEPT !.threw = TRUE]
     ELSE IF pinData.value = << >> THEN found
     ELSE IF pinData.value[1].details.originalImageUrl # ""
     THEN Found(Append(found.pins, [pinID |-> record.id.text, pinData |-> pinData.value[1]]),
                found.seenIDs \cup {record.id.text}, FALSE)
     ELSE IF ~Converts(pinData.value[1].engagement.repins) THEN [found EXCEPT !.threw = TRUE]
     ELSE IF GreaterThanZero(pinData.value[1].engagement.repins)
     THEN Found(Append(found.pins, [pinID |-> record.id.text, pinData |-> pinData.value[1]]),
                found.seenIDs \cup {record.id.text}, FALSE)
     ELSE found

RECURSIVE findAllPins(_, _, _)
RECURSIVE findInEach(_, _, _)
\* function findAllPins(obj, depth) inside extractAllPins, from the pins found
\* before the call to the pins found after it
findAllPins(obj, depth, found) ==
  IF found.threw \/ depth > DepthLimit \/ obj.prim # << >> THEN found
  ELSE LET record == obj.value
           checked == IF looksLikePin(record) /\ record.id.text \notin found.seenIDs
                      THEN keepPin(record, found)
                      ELSE found
       IN findInEach(record.kids, depth + 1, checked)

\* for (const key of Object.keys(record)) findAllPins(value or item, depth + 1)
findInEach(kids, depth, found) ==
  IF kids = << >> THEN found
  ELSE findInEach(Tail(kids), depth, findAllPins(Head(kids), depth, found))

\* function extractAllPins(data): the pins, or that the call threw
extractAllPins(data) ==
  LET found == findAllPins(data, 0, Found(<< >>, {}, FALSE))
  IN IF found.threw THEN Threw ELSE Gave(found.pins)

\* the objects of a payload: wrappers with no id or an id that is a number,
\* and pins with none, one or both of repins and image
NodeVals ==
  { EmptyRaw,
    [EmptyRaw EXCEPT !.id = JsNumber(7), !.repin_count = JsNumber(5)],
    [EmptyRaw EXCEPT !.id = JsString(<<"7">>)],
    [EmptyRaw EXCEPT !.id = JsString(<<"7">>), !.repin_count = JsNumber(5)],
    [EmptyRaw EXCEPT !.id = JsString(<<"7">>), !.images = <<<< <<"o">>, << >>, << >>, << >> >>>>],
    [EmptyRaw EXCEPT !.id = JsString(<<"7">>), !.repin_count = JsUnprintable],
    [EmptyRaw EXCEPT !.id = JsString(<<"4", "2">>), !.repin_count = JsNumber(0), !.saves = JsNumber(3)],
    [EmptyRaw EXCEPT !.id = JsString(<<"4", "2">>), !.image_large_url = <<"l">>,
                     !.repin_count = JsNumber(2)],
    [EmptyRaw EXCEPT !.id = JsString(<<"4", "2">>), !.images = <<<< <<"">>, <<"m">>, << >>, << >> >>>>],
    [EmptyRaw EXCEPT !.id = JsString(<<"4", "2">>), !.images = <<<< << >>, <<"m">>, << >>, << >> >>>>,
                     !.repin_count = JsUnprintable] }

\* obj with the given entries as its other properties
With(obj, kids) == [obj EXCEPT !.kids = kids]

\* payloads of up to four objects: two properties, an array of two items, a
\* nested object beside a property, and a chain that goes below DepthLimit
ResponseData ==
  { Entry("body", With(r, <<Entry("a", a), Entry("b", b)>>)) : r, a, b \in NodeVals }
  \cup { Entry("body", With(r, <<Entry("items", a), Entry("items", b), PrimEntry("n", JsNumber(1))>>)) :
           r, a, b \in NodeVals }
  \cup { Entry("body", With(r, <<Entry("a", With(a, <<Entry("b", b)>>)), Entry("c", c)>>)) :
           r \in {EmptyRaw}, a, b, c \in NodeVals }
  \cup { Entry("body", With(r, <<Entry("a", With(a, <<Entry("b", With(b, <<Entry("c", c)>>))>>))>>)) :
           r \in {EmptyRaw}, a, b, c \in NodeVals }
  \cup { PrimEntry("body", v) : v \in {JsNull, JsNumber(5), JsString(<<"7">>)} }

\* record[key]: the property of that name, undefined if there is none or if
\* the value is a primitive
Prop(obj, key) ==
  IF obj.prim = << >> /\ \E i \in DOMAIN obj.value.kids : obj.value.kids[i].key = key
  THEN obj.value.kids[CHOOSE i \in DOMAIN obj.value.kids : obj.value.kids[i].key = key]
  ELSE PrimEntry(key, JsUndefined)

\* if (value): an object, or a primitive that is not falsy
isTruthy(obj) == obj.prim = << >> \/ ToBoolean(obj.prim[1])

\* dataToProcess of processApiResponse: resource_response.data if both are
\* truthy, then data if it is truthy
unwrap(data) ==
  LET resourceResponse == Prop(data, "resource_response")
      unwrapped == IF isTruthy(resourceResponse) /\ isTruthy(Prop(resourceResponse, "data"))
                   THEN Prop(resourceResponse, "data")
                   ELSE data
  IN IF isTruthy(Prop(data, "data")) THEN Prop(data, "data") ELSE unwrapped

RECURSIVE mergePins(_, _)
\* morePins.forEach((p) => { if (!pins.find(same pinID)) pins.push(p) })
mergePins(pins, morePins) ==
  IF morePins = << >> THEN pins
  ELSE mergePins(IF \E i \in DOMAIN pins : pins[i].pinID = Head(morePins).pinID
                 THEN pins
                 ELSE Append(pins, Head(morePins)),
                 Tail(morePins))

\* the template literal of the log line converts repins, comments and shares
logConverts(pin) ==
  /\ Converts(pin.pinData.engagement.repins)
  /\ Converts(pin.pinData.engagement.comments)
  /\ Converts(pin.pinData.engagement.shares)

\* what one processApiResponse call did: the arguments of its extractAllPins
\* calls, the records it sent to the content script, and whether it caught
\* an exception
Processed(passes, sent, caught) == [passes |-> passes, sent |-> sent, caught |-> caught]

\* pins.forEach(log, sendToContentScript): the records are sent in order up
\* to the first one whose log line throws
routePins(pins, passes) ==
  LET bad == {i \in DOMAIN pins : ~logConverts(pins[i])}
  IN IF bad = {} THEN Processed(passes, pins, FALSE)
     ELSE Processed(passes, SubSeq(pins, 1, (CHOOSE i \in bad : \A j \in bad : i <= j) - 1), TRUE)

\* processApiResponse with no second pass over the original data
processApiResponseOnePass(data) ==
  IF data.prim # << >> /\ data.prim[1].kind \in {"null", "undefined"}
  THEN Processed(<< >>, << >>, TRUE)
  ELSE LET pins == extractAllPins(unwrap(data))
       IN IF pins.threw THEN Processed(<<unwrap(data)>>, << >>, TRUE)
          ELSE routePins(pins.value, <<unwrap(data)>>)

\* function processApiResponse(url, data)
processApiResponse(data) ==
  IF data.prim # << >> /\ data.prim[1].kind \in {"null", "undefined"}
  THEN Processed(<< >>, << >>, TRUE)
  ELSE LET dataToProcess == unwrap(data)
           pins == extractAllPins(dataToProcess)
           morePins == extractAllPins(data)
       IN IF pins.threw THEN Processed(<<dataToProcess>>, << >>, TRUE)
          ELSE IF dataToProcess = data THEN routePins(pins.value, <<dataToProcess>>)
          ELSE IF morePins.threw THEN Processed(<<dataToProcess, data>>, << >>, TRUE)
          ELSE routePins(mergePins(pins.value, morePins.value), <<dataToProcess, data>>)

\* the objects of a response body: a wrapper, pins with repins or an image,
\* a pin whose repins cannot be converted with and without an image
PinVals ==
  { EmptyRaw,
    [EmptyRaw EXCEPT !.id = JsString(<<"7">>), !.repin_count = JsNumber(5)],
    [EmptyRaw EXCEPT !.id = JsString(<<"7">>), !.images = <<<< <<"o">>, << >>, << >>, << >> >>>>],
    [EmptyRaw EXCEPT !.id = JsString(<<"7">>), !.repin_count = JsUnprintable],
    [EmptyRaw EXCEPT !.id = JsString(<<"4", "2">>), !.image_large_url = <<"l">>,
                     !.repin_count = JsNumber(2)],
    [EmptyRaw EXCEPT !.id = JsString(<<"4", "2">>), !.images = <<<< << >>, <<"m">>, << >>, << >> >>>>,
                     !.repin_count = JsUnprintable] }

\* parsed response bodies: with a resource_response.data wrapper, a data
\* wrapper, both, neither, wrappers that are absent or falsy or primitive,
\* and bodies that are no objects
ApiBodies ==
  { Entry("body", With(EmptyRaw,
      <<Entry("resource_response", With(EmptyRaw, <<Entry("data", With(d, <<Entry("k", e)>>))>>)),
        Entry("x", o)>>)) : d, e, o \in PinVals }
  \cup { Entry("body", With(EmptyRaw, <<Entry("x", o), Entry("data", d)>>)) : d, o \in PinVals }
  \cup { Entry("body", With(EmptyRaw,
           <<Entry("resource_response", With(EmptyRaw, <<Entry("data", d)>>)), Entry("data", o)>>)) :
           d, o \in PinVals }
  \cup { Entry("body", With(r, <<Entry("a", d)>>)) : r, d \in PinVals }
  \cup { Entry("body", With(EmptyRaw, <<Entry("resource_response", With(EmptyRaw, <<Entry("x", d)>>))>>)) :
           d \in PinVals }
  \cup { Entry("body", With(EmptyRaw,
           <<Entry("resource_response", With(EmptyRaw, <<PrimEntry("data", JsNull)>>)),
             Entry("x", d)>>)) : d \in PinVals }
  \cup { Entry("body", With(EmptyRaw, <<PrimEntry("data", v), Entry("x", d)>>)) :
           v \in {JsNumber(5), JsNumber(0)}, d \in PinVals }
  \cup { PrimEntry("body", v) : v \in {JsNull, JsNumber(5)} }

(***************************************************************************)
(* The message listeners of both sides and the interceptor                 *)
(***************************************************************************)
VARIABLES
  heard,       \* history: the last message event a listener was called with,
               \* the first check it failed, and whether the listener threw
  extracted,   \* history: the last call of extractPinData, its argument and
               \* what it returned
  walked,      \* history: the last call of extractAllPins, its argument and
               \* what it returned
  hooked,      \* the request of the page that goes through the patched fetch
               \* or the patched XMLHttpRequest: how far it is, how the
               \* original ended, what the page got, and what
               \* processApiResponse did with the body
  wire,        \* history: the last message posted with window.postMessage, its
               \* source, type and targetOrigin
  copy,        \* which of the two copies of the injector held by
               \* src/src/injector.ts is the one that runs
  provider,    \* the top-level code of the injector: whether its message
               \* listener is installed, and how many injector-ready
               \* messages it has posted
  flight       \* between the two sides: the ids whose fetchPinStats call
               \* awaits its response (asked), and the pin-stats messages
               \* posted and not yet received (inbox)

wireVars == <<wire, copy, provider, flight>>

extractVars == <<extracted, walked, hooked, wire, copy, provider, flight>>

hookVars == <<heard, extracted, walked, hooked, wire, copy, provider, flight>>

\* phase is "idle", "original" (the original fetch or the request is under
\* way), "reading" (cloned.json() is under way) or "done"; original and page
\* are "pending", "response" (the Response of the original fetch, or the
\* load event), "clone" or "error" (the error of the original); body is the
\* parsed body, << >> when it is no JSON; ran says whether processApiResponse
\* was called, thrown whether the load listener threw
Hooked(via, api, phase, original, page, body, ran, processed, thrown) ==
  [via |-> via, api |-> api, phase |-> phase, original |-> original, page |-> page,
   body |-> body, ran |-> ran, processed |-> processed, thrown |-> thrown]

NotHooked ==
  Hooked("none", FALSE, "idle", "pending", "pending", << >>, FALSE,
         Processed(<< >>, << >>, FALSE), FALSE)

Heard(side, failed, raised) == [side |-> side, failed |-> failed, raised |-> raised]

Extracted(called, input, output) == [called |-> called, input |-> input, output |-> output]

\* a message handed to window.postMessage(message, targetOrigin)
Message(source, type, targetOrigin) ==
  [source |-> source, type |-> type, targetOrigin |-> targetOrigin]

NoMessage == Message(<< >>, "none", "none")

\* nothing is asked and no message is under way
NoFlight == [asked |-> {}, inbox |-> << >>]

\* the injector before its script runs
NotLoaded == [listening |-> FALSE, signals |-> 0]

HookInit ==
  /\ heard = Heard("none", "none", FALSE)
  /\ extracted = Extracted(FALSE, EmptyRaw, Gave(<< >>))
  /\ walked = Extracted(FALSE, Entry("body", EmptyRaw), Gave(<< >>))
  /\ hooked = NotHooked
  /\ wire = NoMessage
  /\ copy = 1
  /\ provider = NotLoaded
  /\ flight = NoFlight

vars == <<now, cache, initialized, loading, storage, result, touched,
          injectorReady, pendingFetchRequests, pendingRequests, fetchQueue,
          fetchTimer, continuation, posted, held, unanswered,
          fetchedPins, batches, settled, retry, classified, heard, extracted, walked, hooked, wire, copy, provider, flight>>

----------------------------------------------------------------------------
(***************************************************************************)
(* utils/retry: isRetryableError and retryWithBackoff                      *)
(***************************************************************************)
\* a JavaScript value as isRetryableError and retryWithBackoff look at it:
\*   kind       "TypeError", "Error" (instanceof Error, not TypeError),
\*              "object", "null", "undefined", "string" or "number"
\*   message    error.message, a sequence of characters
\*   hasOk, hasStatus   'ok' in value, 'status' in value
\*   ok, status         value.ok, value.status
Value(kind, message, hasOk, okField, hasStatus, status) ==
  [kind |-> kind, message |-> message, hasOk |-> hasOk, ok |-> okField,
   hasStatus |-> hasStatus, status |-> status]

Primitive(kind) == Value(kind, << >>, FALSE, FALSE, FALSE, 0)
ErrorOf(kind, message) == Value(kind, message, FALSE, FALSE, FALSE, 0)
\* a Response-like object { ok, status }
ResponseOf(okField, status) == Value("object", << >>, TRUE, okField, TRUE, status)

UpperCase == <<"A", "B", "C", "D", "E", "F", "G", "H", "I", "J", "K", "L", "M",
               "N", "O", "P", "Q", "R", "S", "T", "U", "V", "W", "X", "Y", "Z">>
LowerCase == <<"a", "b", "c", "d", "e", "f", "g", "h", "i", "j", "k", "l", "m",
               "n", "o", "p", "q", "r", "s", "t", "u", "v", "w", "x", "y", "z">>

\* String.prototype.toLowerCase
toLowerCase(s) ==
  [i \in DOMAIN s |->
     IF \E j \in DOMAIN UpperCase : UpperCase[j] = s[i]
     THEN LowerCase[CHOOSE j \in DOMAIN UpperCase : UpperCase[j] = s[i]]
     ELSE s[i]]

\* String.prototype.includes
includes(s, part) ==
  \E i \in 1..(Len(s) - Len(part) + 1) : SubSeq(s, i, i + Len(part) - 1) = part

fetchWord == <<"f", "e", "t", "c", "h">>
networkWord == <<"n", "e", "t", "w", "o", "r", "k">>

\* isRetryableError without the test of response.ok
isRetryableErrorAnyOk(error) ==
  IF error.kind = "TypeError" THEN TRUE
  ELSE IF error.kind = "Error"
  THEN \/ includes(toLowerCase(error.message), fetchWord)
       \/ includes(toLowerCase(error.message), networkWord)
  ELSE IF error.kind = "object" /\ error.hasStatus
  THEN IF error.status = 429 THEN TRUE
       ELSE IF error.status >= 500 /\ error.status < 600 THEN TRUE
       ELSE FALSE
  ELSE FALSE

\* isRetryableError(error)
isRetryableError(error) ==
  IF error.kind = "TypeError" THEN TRUE
  ELSE IF error.kind = "Error"
  THEN \/ includes(toLowerCase(error.message), fetchWord)
       \/ includes(toLowerCase(error.message), networkWord)
  ELSE IF error.kind = "object" /\ error.hasStatus
  THEN IF error.ok THEN FALSE
       ELSE IF error.status = 429 THEN TRUE
       ELSE IF error.status >= 500 /\ error.status < 600 THEN TRUE
       ELSE FALSE
  ELSE FALSE

\* 'Failed to fetch', 'Network request failed', 'Invalid input', 'NETWORK',
\* 'refetching', 'timeout'
Messages ==
  { <<"F", "a", "i", "l", "e", "d", " ", "t", "o", " ", "f", "e", "t", "c", "h">>,
    <<"N", "e", "t", "w", "o", "r", "k", " ", "r", "e", "q", "u", "e", "s", "t", " ",
      "f", "a", "i", "l", "e", "d">>,
    <<"I", "n", "v", "a", "l", "i", "d", " ", "i", "n", "p", "u", "t">>,
    <<"N", "E", "T", "W", "O", "R", "K">>,
    <<"r", "e", "f", "e", "t", "c", "h", "i", "n", "g">>,
    <<"t", "i", "m", "e", "o", "u", "t">> }

Statuses ==
  {0, 100, 200, 201, 204, 299, 301, 304, 400, 401, 403, 404, 428, 429, 430, 499,
   500, 502, 503, 504, 599, 600}

\* the values isRetryableError is applied to
ClassifyInputs ==
  {ErrorOf(kind, message) : kind \in {"TypeError", "Error"}, message \in Messages}
    \cup {ResponseOf(okField, status) : okField \in BOOLEAN, status \in Statuses}
    \cup {Value("object", << >>, FALSE, FALSE, TRUE, status) : status \in Statuses}
    \cup {Value("object", << >>, hasOk, FALSE, FALSE, 0) : hasOk \in BOOLEAN}
    \cup {Primitive(kind) : kind \in {"null", "undefined", "string", "number"}}

\* what fn() resolves with, and what it rejects with
FnResults ==
  {ResponseOf(TRUE, 200), ResponseOf(FALSE, 404), ResponseOf(FALSE, 429),
   ResponseOf(FALSE, 503), Primitive("string")}
FnErrors ==
  {ErrorOf("TypeError", <<"N", "e", "t", "w", "o", "r", "k", " ",
                          "f", "a", "i", "l", "u", "r", "e">>),
   ErrorOf("Error", <<"F", "a", "i", "l", "e", "d", " ", "t", "o", " ", "f", "e", "t", "c", "h">>),
   ErrorOf("Error", <<"I", "n", "v", "a", "l", "i", "d", " ", "i", "n", "p", "u", "t">>)}

\* the last isRetryableError call: its argument and its answer
Classified(value) == [value |-> value, retryable |-> isRetryableError(value)]

\* Math.pow(2, n)
RECURSIVE pow2(_)
pow2(n) == IF n = 0 THEN 1 ELSE 2 * pow2(n - 1)

\* the same wait before every retry
backoffMsFixed(attempt) == INITIAL_BACKOFF_MS

\* const backoffMs = INITIAL_BACKOFF_MS * Math.pow(2, attempt)
backoffMs(attempt) == INITIAL_BACKOFF_MS * pow2(attempt)

\* retryWithBackoff before it is called
NotRetrying ==
  [pc |-> "idle", maxRetries |-> 0, timeout |-> 0, attempt |-> 0,
   lastError |-> Primitive("undefined"), settledWith |-> Primitive("undefined"),
   invoked |-> << >>, waits |-> << >>, elapsed |-> 0]

\* the top of the for loop in the state r: fn() is called if attempt is below
\* maxRetries, lastError is thrown otherwise
loopTop(r) ==
  IF r.attempt < r.maxRetries
  THEN [r EXCEPT !.pc = "calling", !.elapsed = 0]
  ELSE [r EXCEPT !.pc = "threw", !.settledWith = r.lastError]

\* the catch block that treats every error as retryable
caughtAlwaysRetry(r, error) ==
  LET kept == [r EXCEPT !.lastError = error]
  IN IF r.attempt = r.maxRetries - 1
     THEN [kept EXCEPT !.pc = "threw", !.settledWith = error]
     ELSE [kept EXCEPT !.pc = "waiting", !.waits = Append(@, backoffMs(r.attempt))]

\* the catch block, entered with error in the state r
caught(r, error) ==
  LET kept == [r EXCEPT !.lastError = error]
  IN IF ~isRetryableError(error)
     THEN [kept EXCEPT !.pc = "threw", !.settledWith = error]
     ELSE IF r.attempt = r.maxRetries - 1
     THEN [kept EXCEPT !.pc = "threw", !.settledWith = error]
     ELSE [kept EXCEPT !.pc = "waiting", !.waits = Append(@, backoffMs(r.attempt))]

\* typeof result === 'object' && result !== null && 'ok' in result && 'status' in result
isResponse(value) ==
  value.kind \in {"object", "Error", "TypeError"} /\ value.hasOk /\ value.hasStatus

\* retryWithBackoff(fn, options) is called; an option is << >> when not given
retryWithBackoffCall(maxRetriesOption, timeoutOption) ==
  /\ retry.pc = "idle"
  /\ retry' = loopTop([retry EXCEPT
                         !.maxRetries = IF maxRetriesOption = << >> THEN MAX_RETRIES
                                        ELSE maxRetriesOption[1],
                         !.timeout = IF timeoutOption = << >> THEN DEFAULT_TIMEOUT_MS
                                     ELSE timeoutOption[1]])
  /\ UNCHANGED classified

\* await fn() resolves with fnResult
fnResolves(fnResult) ==
  /\ retry.pc = "calling"
  /\ LET seen == [retry EXCEPT !.invoked = Append(@, [how |-> "resolved", value |-> fnResult])]
     IN IF isResponse(fnResult) /\ ~fnResult.ok /\ isRetryableError(fnResult)
        THEN /\ retry' = caught(seen, fnResult)
             /\ classified' = Classified(fnResult)
        ELSE /\ retry' = [seen EXCEPT !.pc = "returned", !.settledWith = fnResult]
             /\ classified' = IF isResponse(fnResult) /\ ~fnResult.ok
                              THEN Classified(fnResult) ELSE classified

\* await fn() rejects with error
fnRejects(error) ==
  /\ retry.pc = "calling"
  /\ retry' = caught([retry EXCEPT !.invoked = Append(@, [how |-> "rejected", value |-> error])],
                     error)
  /\ classified' = Classified(error)

\* the setTimeout of the backoff runs: attempt++ and the next pass of the loop
backoffTimerFires ==
  /\ retry.pc = "waiting"
  /\ retry' = loopTop([retry EXCEPT !.attempt = @ + 1])
  /\ UNCHANGED classified

\* time passes while fn() has not settled
timePasses ==
  /\ retry.pc = "calling"
  /\ retry.elapsed < MaxElapsed
  /\ retry' = [retry EXCEPT !.elapsed = @ + DEFAULT_TIMEOUT_MS \div 2]
  /\ UNCHANGED classified

\* isRetryableError(value) called on its own, before retryWithBackoff runs
classify(value) ==
  /\ retry.pc = "idle"
  /\ classified' = Classified(value)
  /\ UNCHANGED retry

RetryInit ==
  /\ retry = NotRetrying
  /\ classified = [value |-> Primitive("undefined"), retryable |-> FALSE]


----------------------------------------------------------------------------
(***************************************************************************)
(* Content script: requestStatsFetch, the message listener, the timers     *)
(***************************************************************************)
Range(q) == {q[i] : i \in DOMAIN q}

\* a hasValidStats that finds no record complete
hasValidStatsNever(data) == FALSE

\* function hasValidStats(data) of a record that is present
hasValidStats(data) == data.engagement.repins > 0 \/ data.engagement.comments > 0

\* the state requestStatsFetch reads and writes
ContentState ==
  [cache |-> cache, touched |-> touched, pendingRequests |-> pendingRequests,
   pendingFetchRequests |-> pendingFetchRequests, fetchQueue |-> fetchQueue,
   fetchTimer |-> fetchTimer]

\* requestStatsFetch without the includes() test before the push to the backlog
requestStatsFetchNoIncludes(st, ready, pinID, t) ==
  IF pinID \in st.pendingRequests THEN st
  ELSE LET cached == getValue(st.cache, pinID, t)
           read == [st EXCEPT
                      !.cache = getCache(st.cache, pinID, t),
                      !.touched = Touched([st.touched EXCEPT ![pinID] = t],
                                          getCache(st.cache, pinID, t))]
       IN IF cached # Undefined /\ hasValidStats(cached[1]) THEN read
          ELSE IF ~ready
          THEN [read EXCEPT !.pendingFetchRequests = Append(@, pinID)]
          ELSE [read EXCEPT !.pendingRequests = @ \cup {pinID},
                            !.fetchQueue = Append(@, pinID),
                            !.fetchTimer = TRUE]

\* function requestStatsFetch(pinID), called in state st at time t with
\* injectorReady = ready: the state it leaves
requestStatsFetchOn(st, ready, pinID, t) ==
  IF pinID \in st.pendingRequests THEN st
  ELSE LET cached == getValue(st.cache, pinID, t)
           read == [st EXCEPT
                      !.cache = getCache(st.cache, pinID, t),
                      !.touched = Touched([st.touched EXCEPT ![pinID] = t],
                                          getCache(st.cache, pinID, t))]
       IN IF cached # Undefined /\ hasValidStats(cached[1]) THEN read
          ELSE IF ~ready
          THEN [read EXCEPT !.pendingFetchRequests =
                              IF pinID \in Range(@) THEN @ ELSE Append(@, pinID)]
          ELSE [read EXCEPT !.pendingRequests = @ \cup {pinID},
                            !.fetchQueue = Append(@, pinID),
                            !.fetchTimer = TRUE]

RECURSIVE requestStatsFetchEach(_, _, _)
\* pinsToFetch.forEach((pinID) => requestStatsFetch(pinID)), with injectorReady true
requestStatsFetchEach(st, pinsToFetch, t) ==
  IF pinsToFetch = << >> THEN st
  ELSE requestStatsFetchEach(requestStatsFetchOn(st, TRUE, Head(pinsToFetch), t),
                             Tail(pinsToFetch), t)

\* the content script moves to the state st
ContentBecomes(st) ==
  /\ Len(st.fetchQueue) <= MaxQueue
  /\ cache' = st.cache
  /\ touched' = st.touched
  /\ pendingRequests' = st.pendingRequests
  /\ pendingFetchRequests' = st.pendingFetchRequests
  /\ fetchQueue' = st.fetchQueue
  /\ fetchTimer' = st.fetchTimer
  /\ result' = NoResult
  /\ UNCHANGED <<now, initialized, loading, storage>>

\* requestStatsFetch(pinID) called for a pin container found by scanForPins
requestStatsFetch(pinID) ==
  /\ ContentBecomes(requestStatsFetchOn(ContentState, injectorReady, pinID, now))
  /\ UNCHANGED <<injectorReady, continuation, posted, held, unanswered>>

\* the message listener receives injector-ready, which the injector posts once
onInjectorReady ==
  /\ ~injectorReady
  /\ injectorReady' = TRUE
  /\ ContentBecomes(requestStatsFetchEach(
                      [ContentState EXCEPT !.pendingFetchRequests = << >>],
                      pendingFetchRequests, now))
  /\ held' = pendingFetchRequests
  /\ UNCHANGED <<continuation, posted, unanswered>>

\* the message listener receives pin-stats; the injector posts it after
\* injector-ready
onPinStats(pinID, pinData) ==
  /\ injectorReady
  /\ LET stored == evictIfNeeded(MapSet(cache, pinID, CacheEntry(pinID, pinData, now, now)))
         shown == getCache(stored, pinID, now)
     IN /\ cache' = shown
        /\ touched' = Touched([touched EXCEPT ![pinID] = now], shown)
  /\ pendingRequests' = pendingRequests \ {pinID}
  /\ unanswered' = unanswered \ {pinID}
  /\ result' = NoResult
  /\ UNCHANGED <<now, initialized, loading, storage, injectorReady, pendingFetchRequests,
                 fetchQueue, fetchTimer, continuation, posted, held>>

\* a flush that posts the whole queue, whatever its length
spliceBatchAll(q) == q

\* fetchQueue.splice(0, MAX_BATCH_SIZE): the batch, and what stays in the queue
spliceBatch(q) == SubSeq(q, 1, IF Len(q) < MAX_BATCH_SIZE THEN Len(q) ELSE MAX_BATCH_SIZE)
spliceRest(q) == SubSeq(q, (IF Len(q) < MAX_BATCH_SIZE THEN Len(q) ELSE MAX_BATCH_SIZE) + 1, Len(q))

\* the callback of fetchTimer runs. Timers of equal delay run in the order they
\* were set, so it runs after a continuation that was set before it.
fetchTimerFire ==
  /\ fetchTimer
  /\ ~continuation
  /\ fetchTimer' = FALSE
  /\ IF fetchQueue = << >>
     THEN UNCHANGED <<fetchQueue, posted, continuation, held, unanswered>>
     ELSE /\ fetchQueue' = spliceRest(fetchQueue)
          /\ posted' = spliceBatch(fetchQueue)
          /\ continuation' = (spliceRest(fetchQueue) # << >>)
          /\ held' = << >>
          /\ unanswered' = unanswered \cup Range(spliceBatch(fetchQueue))
  /\ UNCHANGED <<now, cache, initialized, loading, storage, result, touched,
                 injectorReady, pendingFetchRequests, pendingRequests>>

\* the continuation runs: requestStatsFetch(fetchQueue[0])
continuationFire ==
  /\ continuation
  /\ fetchQueue # << >>
  /\ continuation' = FALSE
  /\ ContentBecomes(requestStatsFetchOn(ContentState, injectorReady, fetchQueue[1], now))
  /\ UNCHANGED <<injectorReady, posted, held, unanswered>>

\* the caches initFromStorage may have restored before the first scan
LoadedCaches ==
  { << >>,
    <<CacheEntry(1, DetailedData, 0, 0)>>,
    <<CacheEntry(1, DetailedData, 0, 0), CacheEntry(2, ReactionsOnlyData, 0, 0)>> }

FetcherInit ==
  /\ fetchedPins = << >>
  /\ batches = << >>
  /\ settled = [pinID |-> 0, outcome |-> "none", rateLimited |-> FALSE, rejects |-> FALSE]

ContentInit ==
  /\ injectorReady = FALSE
  /\ pendingFetchRequests = << >>
  /\ pendingRequests = {}
  /\ fetchQueue = << >>
  /\ fetchTimer = FALSE
  /\ continuation = FALSE
  /\ posted = << >>
  /\ held = << >>
  /\ unanswered = {}

ChannelInit ==
  /\ now = 0
  /\ cache \in LoadedCaches
  /\ touched = [id \in PinIDs |-> IF MapHas(cache, id) THEN 0 ELSE -1]
  /\ initialized = TRUE
  /\ loading = 0
  /\ storage = NoStorage
  /\ result = NoResult
  /\ ContentInit
  /\ FetcherInit
  /\ RetryInit
  /\ HookInit

FetcherIdle == UNCHANGED <<fetchVars, retryVars, hookVars>>

\* The content script after init(): scans request pins, the injector's
\* messages arrive, the timers run. All of it happens within one value of
\* Date.now(): no entry expires meanwhile (CACHE_TTL_MS is a day).
ChannelNext ==
  \/ (\E pinID \in PinIDs : requestStatsFetch(pinID)) /\ FetcherIdle
  \/ onInjectorReady /\ FetcherIdle
  \/ (\E pinID \in PinIDs, pinData \in PinDataVals : onPinStats(pinID, pinData)) /\ FetcherIdle
  \/ fetchTimerFire /\ FetcherIdle
  \/ continuationFire /\ FetcherIdle

SpecChannel == ChannelInit /\ [][ChannelNext]_vars

\* The channel with its timers: a timeout that is set and not cleared runs
SpecChannelLive ==
  /\ ChannelInit
  /\ [][ChannelNext]_vars
  /\ WF_vars(fetchTimerFire /\ FetcherIdle)
  /\ WF_vars(continuationFire /\ FetcherIdle)

\* The scans of the content script while Date.now() advances: cached records
\* are read at later times than they were stored, and expire
ScanNext ==
  \/ (\E pinID \in PinIDs : requestStatsFetch(pinID)) /\ FetcherIdle
  \/ onInjectorReady /\ FetcherIdle
  \/ fetchTimerFire /\ FetcherIdle
  \/ Tick /\ UNCHANGED contentVars /\ FetcherIdle

SpecScan == ChannelInit /\ [][ScanNext]_vars

----------------------------------------------------------------------------
StoredEntry(k, data, ts, la) ==
  [key |-> k, val |-> [data |-> data, timestamp |-> ts, lastAccessed |-> la]]

\* what an earlier session may have left under STORAGE_KEY: the flat records of
\* the version without timestamps, or timestamped entries written before time 0
StorageVals ==
  { Stored(<<[key |-> 1, val |-> DetailedData], [key |-> 2, val |-> ReactionsOnlyData],
             [key |-> 3, val |-> DetailedData]>>),
    Stored(<<StoredEntry(1, DetailedData, 0, 0), StoredEntry(2, ReactionsOnlyData, -1, 0),
             StoredEntry(3, DetailedData, 0, 0)>>) }

CacheInit ==
  /\ now = 0
  /\ cache = << >>
  /\ initialized = FALSE
  /\ loading = 0
  /\ storage \in StorageVals
  /\ result = NoResult
  /\ touched = [id \in PinIDs |-> -1]
  /\ ContentInit
  /\ FetcherInit
  /\ RetryInit
  /\ HookInit

ContentAndFetcherIdle == UNCHANGED <<contentVars, fetchVars, retryVars, hookVars>>

\* The cache under every sequence of its operations. chrome.storage.local
\* holds what an earlier session left and rejects the writes of this one.
CacheNext ==
  \/ (\E pinID \in PinIDs, data \in PinDataVals : set(pinID, data)) /\ ContentAndFetcherIdle
  \/ (\E pinID \in PinIDs : get(pinID)) /\ ContentAndFetcherIdle
  \/ (\E pinID \in PinIDs : has(pinID)) /\ ContentAndFetcherIdle
  \/ (\E pinID \in PinIDs, updates \in UpdateVals : update(pinID, updates)) /\ ContentAndFetcherIdle
  \/ clear /\ ContentAndFetcherIdle
  \/ syncToStorage(FALSE) /\ ContentAndFetcherIdle
  \/ initFromStorageCall /\ ContentAndFetcherIdle
  \/ initFromStorageSkip /\ ContentAndFetcherIdle
  \/ initFromStorageResume /\ ContentAndFetcherIdle
  \/ initFromStorageFail /\ ContentAndFetcherIdle
  \/ Tick /\ ContentAndFetcherIdle

SpecCache == CacheInit /\ [][CacheNext]_vars

UpdateInit ==
  /\ now = 0
  /\ cache = << >>
  /\ initialized = TRUE
  /\ loading = 0
  /\ storage = NoStorage
  /\ result = NoResult
  /\ touched = [id \in PinIDs |-> -1]
  /\ ContentInit
  /\ FetcherInit
  /\ RetryInit
  /\ HookInit

\* The cache under set and update with every kind of partial record
UpdateNext ==
  \/ (\E pinID \in PinIDs, data \in PinDataVals : set(pinID, data)) /\ ContentAndFetcherIdle
  \/ (\E pinID \in PinIDs, updates \in PartialVals : update(pinID, updates)) /\ ContentAndFetcherIdle
  \/ Tick /\ ContentAndFetcherIdle

SpecUpdate == UpdateInit /\ [][UpdateNext]_vars

RestartInit ==
  /\ now = 0
  /\ cache = << >>
  /\ initialized = TRUE
  /\ loading = 0
  /\ storage = NoStorage
  /\ result = NoResult
  /\ touched = [id \in PinIDs |-> -1]
  /\ ContentInit
  /\ FetcherInit
  /\ RetryInit
  /\ HookInit

\* Sessions over chrome.storage.local, whose calls succeed or fail: the page
\* stores and reads records while nothing is persisted, flushes, clears, and
\* the process is replaced by a fresh one that loads what was flushed
RestartNext ==
  \/ (~storage.present /\ \E pinID \in PinIDs, data \in PinDataVals : set(pinID, data))
       /\ ContentAndFetcherIdle
  \/ (~storage.present /\ \E pinID \in PinIDs : get(pinID)) /\ ContentAndFetcherIdle
  \/ (\E ok \in BOOLEAN : syncToStorage(ok)) /\ ContentAndFetcherIdle
  \/ (storage.present /\ restart) /\ ContentAndFetcherIdle
  \/ initFromStorageCall /\ ContentAndFetcherIdle
  \/ initFromStorageSkip /\ ContentAndFetcherIdle
  \/ initFromStorageResume /\ ContentAndFetcherIdle
  \/ initFromStorageFail /\ ContentAndFetcherIdle
  \/ clear /\ ContentAndFetcherIdle
  \/ (\E ok \in BOOLEAN : clearAll(ok)) /\ ContentAndFetcherIdle
  \/ Tick /\ ContentAndFetcherIdle

SpecRestart == RestartInit /\ [][RestartNext]_vars

\* handleClearCache of the popup: clearAll() runs in the popup's own page,
\* whose copy of the cache module has an empty Map; clear() empties that Map
\* and chrome.storage.local.remove drops the persisted copy. The Map of the
\* content script is another one and is left as it is.
popupClearAll(ok) ==
  /\ storage' = IF ok THEN NoStorage ELSE storage
  /\ result' = Finished("popupClearAll", ok)
  /\ UNCHANGED <<now, cache, initialized, loading, touched>>

\* A content script after init, storing the records it receives and flushing
\* every SYNC_INTERVAL, while the user resets the cache from the popup
PopupNext ==
  \/ (\E pinID \in PinIDs, data \in PinDataVals : set(pinID, data)) /\ ContentAndFetcherIdle
  \/ (\E ok \in BOOLEAN : syncToStorage(ok)) /\ ContentAndFetcherIdle
  \/ (\E ok \in BOOLEAN : popupClearAll(ok)) /\ ContentAndFetcherIdle
  \/ Tick /\ ContentAndFetcherIdle

SpecPopup == RestartInit /\ [][PopupNext]_vars

----------------------------------------------------------------------------
(***************************************************************************)
(* Injector: fetchPinStats, fetchBatchParallel, the message listener       *)
(***************************************************************************)
\* response.status values: ok, rate limited, another failure
HttpStatuses == {200, 429, 500}

\* response.ok
ok(status) == status >= 200 /\ status <= 299

\* what response.json() and extractPinData yield for an ok response
Payloads == {"data", "noData", "unextractable"}

\* the pinIDs of the fetch-stats messages that arrive: one id, a full window,
\* a window that shares an id with it, two windows, an id named in two
\* windows, an id named twice in one window
FetchRequests == {<<3>>, <<1, 2>>, <<2, 3>>, <<1, 2, 3>>, <<1, 2, 1>>, <<2, 2>>}

\* what the last step settled: the pin id, what the call met ("tried" for
\* fetchedPins.has, "429", "notOk", "networkError", "parseError" or a member
\* of Payloads) and how the promise ended
Settled(pinID, outcome, ends) ==
  [pinID |-> pinID, outcome |-> outcome, rateLimited |-> ends.rateLimited, rejects |-> ends.rejects]

NoneSettled == [pinID |-> 0, outcome |-> "none", rateLimited |-> FALSE, rejects |-> FALSE]

\* one fetchPinStats(pinID) call of a fetchBatchParallel invocation:
\*   stage    "notcalled", "fetch" (awaiting originalFetch), "json" (awaiting
\*            response.json()), "settled" (promise resolved), "rejected"
\*   rateLimited  the boolean the promise resolved with
Call(stage, rateLimited) == [stage |-> stage, rateLimited |-> rateLimited]

NotCalled == Call("notcalled", FALSE)

\* a fetchBatchParallel(pinIDs) invocation: i is the loop variable, pc is
\* "fetching" (await Promise.all), "delay", "backoff" (await setTimeout),
\* "finished" or "rejected" (an exception left the function); handed is the
\* history of the ids passed to fetchPinStats
Batch(pinIDs) ==
  [pinIDs |-> pinIDs, i |-> 0, pc |-> "fetching",
   calls |-> [p \in DOMAIN pinIDs |-> NotCalled], handed |-> << >>]

\* the positions of pinIDs.slice(i, i + CONCURRENT_LIMIT)
slice(b) ==
  {p \in DOMAIN b.pinIDs : p > b.i /\ p <= b.i + CONCURRENT_LIMIT}

\* how fetchPinStats ends for what it met without its try/catch
fetchPinStatsUncaught(outcome) ==
  IF outcome = "429" THEN [release |-> TRUE, rateLimited |-> TRUE, rejects |-> FALSE]
  ELSE IF outcome \in {"networkError", "parseError"}
  THEN [release |-> FALSE, rateLimited |-> FALSE, rejects |-> TRUE]
  ELSE [release |-> FALSE, rateLimited |-> FALSE, rejects |-> FALSE]

\* how fetchPinStats ends when every failed response releases the id
fetchPinStatsReleaseNotOk(outcome) ==
  IF outcome = "429" THEN [release |-> TRUE, rateLimited |-> TRUE, rejects |-> FALSE]
  ELSE IF outcome \in {"networkError", "parseError", "notOk"}
  THEN [release |-> TRUE, rateLimited |-> FALSE, rejects |-> FALSE]
  ELSE [release |-> FALSE, rateLimited |-> FALSE, rejects |-> FALSE]

\* how fetchPinStats ends for what it met: whether it deletes pinID from
\* fetchedPins, the value it resolves with, whether it rejects
fetchPinStatsEnds(outcome) ==
  IF outcome = "429" THEN [release |-> TRUE, rateLimited |-> TRUE, rejects |-> FALSE]
  ELSE IF outcome \in {"networkError", "parseError"}
  THEN [release |-> TRUE, rateLimited |-> FALSE, rejects |-> FALSE]
  ELSE [release |-> FALSE, rateLimited |-> FALSE, rejects |-> FALSE]

\* fetchPinStats(pinID) up to its first await, at time t
fetchPinStatsCall(fp, pinID, t) ==
  IF MapHas(fp, pinID)
  THEN [fetchedPins |-> fp, call |-> Call("settled", FALSE)]
  ELSE [fetchedPins |-> MapSet(fp, pinID, [key |-> pinID, timestamp |-> t]),
        call |-> Call("fetch", FALSE)]

RECURSIVE mapFetchPinStats(_, _, _, _)
\* batch.map((id) => fetchPinStats(id)) from position p on: fetchedPins and
\* the invocation b after the calls
mapFetchPinStats(fp, b, p, t) ==
  IF p \notin slice(b) THEN [fetchedPins |-> fp, batch |-> b]
  ELSE LET called == fetchPinStatsCall(fp, b.pinIDs[p], t)
       IN mapFetchPinStats(called.fetchedPins,
                           [b EXCEPT !.calls[p] = called.call,
                                     !.handed = Append(@, b.pinIDs[p])], p + 1, t)

\* for (let i = 0; i < pinIDs.length; i += CONCURRENT_LIMIT): the number of
\* windows fetchBatchParallel(pinIDs) goes through
windows(pinIDs) == (Len(pinIDs) + CONCURRENT_LIMIT - 1) \div CONCURRENT_LIMIT

\* the delays fetchBatchParallel awaits between windows, in milliseconds
BATCH_DELAY_MS == 100
RATE_LIMIT_BACKOFF_MS == 1000

\* the delay of the setTimeout that the invocation b awaits, 0 if it awaits none
waitMs(b) ==
  IF b.pc = "backoff" THEN RATE_LIMIT_BACKOFF_MS
  ELSE IF b.pc = "delay" THEN BATCH_DELAY_MS
  ELSE 0

\* fetchBatchParallel that takes the short delay after every window
afterAwaitNoBackoff(b) ==
  IF b.pc # "fetching" THEN b
  ELSE IF \E p \in slice(b) : b.calls[p].stage = "rejected"
  THEN [b EXCEPT !.pc = "rejected"]
  ELSE IF \E p \in slice(b) : b.calls[p].stage \in {"fetch", "json"} THEN b
  ELSE IF b.i + CONCURRENT_LIMIT < Len(b.pinIDs)
  THEN [b EXCEPT !.pc = "delay"]
  ELSE [b EXCEPT !.pc = "finished"]

\* fetchBatchParallel going on from its await as soon as one call of the
\* window has settled
afterAwaitAny(b) ==
  IF b.pc # "fetching" THEN b
  ELSE IF \E p \in slice(b) : b.calls[p].stage = "rejected"
  THEN [b EXCEPT !.pc = "rejected"]
  ELSE IF \A p \in slice(b) : b.calls[p].stage \in {"fetch", "json"} THEN b
  ELSE IF \E p \in slice(b) : b.calls[p].rateLimited
  THEN [b EXCEPT !.pc = "backoff"]
  ELSE IF b.i + CONCURRENT_LIMIT < Len(b.pinIDs)
  THEN [b EXCEPT !.pc = "delay"]
  ELSE [b EXCEPT !.pc = "finished"]

\* fetchBatchParallel after a call of its window has settled: it goes on
\* from await Promise.all once no call of the window is unsettled
afterAwait(b) ==
  IF b.pc # "fetching" THEN b
  ELSE IF \E p \in slice(b) : b.calls[p].stage = "rejected"
  THEN [b EXCEPT !.pc = "rejected"]
  ELSE IF \E p \in slice(b) : b.calls[p].stage \in {"fetch", "json"} THEN b
  ELSE IF \E p \in slice(b) : b.calls[p].rateLimited
  THEN [b EXCEPT !.pc = "backoff"]
  ELSE IF b.i + CONCURRENT_LIMIT < Len(b.pinIDs)
  THEN [b EXCEPT !.pc = "delay"]
  ELSE [b EXCEPT !.pc = "finished"]

\* one pass of the for loop up to its await, at time t
loopBody(fp, b, t) ==
  IF b.i >= Len(b.pinIDs) THEN [fetchedPins |-> fp, batch |-> [b EXCEPT !.pc = "finished"]]
  ELSE LET mapped == mapFetchPinStats(fp, [b EXCEPT !.pc = "fetching"], b.i + 1, t)
       IN [fetchedPins |-> mapped.fetchedPins, batch |-> afterAwait(mapped.batch)]

\* the invocations under way, with invocation k now being b
Invocations(k, b) ==
  LET all == [j \in DOMAIN batches |-> IF j = k THEN b ELSE batches[j]]
  IN SelectSeq(all, LAMBDA x : x.pc # "finished")

RECURSIVE CallsOf(_)
\* the length of the pinIDs of the invocations bs, summed
CallsOf(bs) == IF bs = << >> THEN 0 ELSE Len(Head(bs).pinIDs) + CallsOf(Tail(bs))

\* the listener receives fetch-stats: fetchBatchParallel(message.data.pinIDs),
\* not awaited
onFetchStats(pinIDs) ==
  /\ CallsOf(batches) + Len(pinIDs) <= MaxCalls
  /\ LET started == loopBody(fetchedPins, Batch(pinIDs), now)
     IN /\ fetchedPins' = started.fetchedPins
        /\ batches' = SelectSeq(Append(batches, started.batch), LAMBDA x : x.pc # "finished")
  /\ settled' = NoneSettled
  /\ UNCHANGED now

\* call p of invocation k settles having met outcome
settles(k, p, outcome) ==
  LET b == batches[k]
      ends == fetchPinStatsEnds(outcome)
      call == Call(IF ends.rejects THEN "rejected" ELSE "settled", ends.rateLimited)
  IN /\ settled' = Settled(b.pinIDs[p], outcome, ends)
     /\ fetchedPins' = IF ends.release THEN MapDelete(fetchedPins, b.pinIDs[p])
                       ELSE fetchedPins
     /\ batches' = Invocations(k, afterAwait([b EXCEPT !.calls[p] = call]))
     /\ UNCHANGED now

\* await originalFetch(url, ...) resolves with a response
originalFetchResolves(k, p, status) ==
  /\ k \in DOMAIN batches /\ p \in DOMAIN batches[k].pinIDs
  /\ batches[k].calls[p].stage = "fetch"
  /\ IF status = 429 THEN settles(k, p, "429")
     ELSE IF ~ok(status) THEN settles(k, p, "notOk")
     ELSE /\ batches' = [batches EXCEPT ![k].calls[p].stage = "json"]
          /\ settled' = NoneSettled
          /\ UNCHANGED <<fetchedPins, now>>

\* await originalFetch(url, ...) rejects
originalFetchRejects(k, p) ==
  /\ k \in DOMAIN batches /\ p \in DOMAIN batches[k].pinIDs
  /\ batches[k].calls[p].stage = "fetch"
  /\ settles(k, p, "networkError")

\* await response.json() resolves; the record is extracted and posted, or not
jsonResolves(k, p, payload) ==
  /\ k \in DOMAIN batches /\ p \in DOMAIN batches[k].pinIDs
  /\ batches[k].calls[p].stage = "json"
  /\ settles(k, p, payload)

\* await response.json() rejects
jsonRejects(k, p) ==
  /\ k \in DOMAIN batches /\ p \in DOMAIN batches[k].pinIDs
  /\ batches[k].calls[p].stage = "json"
  /\ settles(k, p, "parseError")

\* the setTimeout awaited after a window runs out: i += CONCURRENT_LIMIT and
\* the next pass of the loop
timerFires(k) ==
  /\ k \in DOMAIN batches
  /\ batches[k].pc \in {"delay", "backoff"}
  /\ LET next == loopBody(fetchedPins,
                          [batches[k] EXCEPT !.i = @ + CONCURRENT_LIMIT], now)
     IN /\ fetchedPins' = next.fetchedPins
        /\ batches' = Invocations(k, next.batch)
  /\ settled' = NoneSettled
  /\ UNCHANGED now

\* entries.sort((a, b) => a[1] - b[1]): a stable sort by timestamp
RECURSIVE SortByTimestamp(_)
SortByTimestamp(m) ==
  IF m = << >> THEN << >>
  ELSE LET rest == SortByTimestamp(SubSeq(m, 1, Len(m) - 1))
           e == m[Len(m)]
           n == Cardinality({i \in DOMAIN rest : rest[i].timestamp <= e.timestamp})
       IN SubSeq(rest, 1, n) \o <<e>> \o SubSeq(rest, n + 1, Len(rest))

\* setInterval(cleanupFetchedPins, 60000)
cleanupFetchedPins ==
  /\ LET kept == SelectSeq(fetchedPins, LAMBDA e : ~(now - e.timestamp > FETCHED_PIN_TTL_MS))
         entries == SortByTimestamp(kept)
         oldest == IF Len(kept) > MAX_FETCHED_PINS
                   THEN {entries[i].key : i \in 1..(Len(kept) - MAX_FETCHED_PINS)}
                   ELSE {}
     IN fetchedPins' = SelectSeq(kept, LAMBDA e : e.key \notin oldest)
  /\ settled' = NoneSettled
  /\ UNCHANGED <<now, batches>>

FetchInit ==
  /\ now = 0
  /\ cache = << >>
  /\ touched = [id \in PinIDs |-> -1]
  /\ initialized = TRUE
  /\ loading = 0
  /\ storage = NoStorage
  /\ result = NoResult
  /\ ContentInit
  /\ FetcherInit
  /\ RetryInit
  /\ HookInit

CacheAndContentIdle == UNCHANGED <<cacheVars, contentVars, retryVars, hookVars>>

\* The injector after its script has run: fetch-stats messages arrive, the
\* requests settle, the timers and the cleanup interval run. All of it happens
\* within one value of Date.now(): no entry of fetchedPins outlives
\* FETCHED_PIN_TTL_MS (ten minutes) meanwhile, and cleanupFetchedPins removes
\* by its size limit.
FetchNext ==
  \/ (\E pinIDs \in FetchRequests : onFetchStats(pinIDs)) /\ CacheAndContentIdle
  \/ (\E k \in DOMAIN batches : \E p \in DOMAIN batches[k].pinIDs : \E status \in HttpStatuses :
        originalFetchResolves(k, p, status)) /\ CacheAndContentIdle
  \/ (\E k \in DOMAIN batches : \E p \in DOMAIN batches[k].pinIDs :
        originalFetchRejects(k, p)) /\ CacheAndContentIdle
  \/ (\E k \in DOMAIN batches : \E p \in DOMAIN batches[k].pinIDs : \E payload \in Payloads :
        jsonResolves(k, p, payload)) /\ CacheAndContentIdle
  \/ (\E k \in DOMAIN batches : \E p \in DOMAIN batches[k].pinIDs :
        jsonRejects(k, p)) /\ CacheAndContentIdle
  \/ (\E k \in DOMAIN batches : timerFires(k)) /\ CacheAndContentIdle
  \/ cleanupFetchedPins /\ CacheAndContentIdle

SpecFetch == FetchInit /\ [][FetchNext]_vars

----------------------------------------------------------------------------
(***************************************************************************)
(* The message listeners: window.addEventListener('message', ...)          *)
(***************************************************************************)
SOURCE_ID == <<"p", "i", "n", "s", "t", "a", "t", "s", "-", "i", "n", "j", "e", "c", "t", "o", "r">>
CONTENT_SOURCE_ID == <<"p", "i", "n", "s", "t", "a", "t", "s", "-", "c", "o", "n", "t", "e", "n", "t">>
pinstatsWord == <<"p", "i", "n", "s", "t", "a", "t", "s">>

\* event.data.source: absent, a string, or an object that String() cannot
\* convert (structured clone delivers { toString: 1 } as it is)
NoSource == [present |-> FALSE, printable |-> TRUE, text |-> << >>]
TextSource(text) == [present |-> TRUE, printable |-> TRUE, text |-> text]
UnprintableSource == [present |-> TRUE, printable |-> FALSE, text |-> << >>]

Sources ==
  { NoSource, TextSource(SOURCE_ID), TextSource(CONTENT_SOURCE_ID),
    TextSource(<<"p", "a", "g", "e">>), UnprintableSource }

\* event.data: isObject is typeof data === 'object' of a non-null value;
\* stringifies is whether JSON.stringify(data) returns (it throws on a cycle
\* or a BigInt, both of which structured clone delivers)
MessageData(isObject, source, stringifies, type, pinID, pinData, pinIDs) ==
  [isObject |-> isObject, source |-> source, stringifies |-> stringifies, type |-> type,
   pinID |-> pinID, pinData |-> pinData, pinIDs |-> pinIDs]

MessageTypes == {"injector-ready", "pin-stats", "fetch-stats"}

DataVals ==
  { MessageData(FALSE, NoSource, TRUE, "pin-stats", 1, DetailedData, <<1, 2>>) } \cup
  { MessageData(TRUE, source, stringifies, type, 1, DetailedData, <<1, 2>>) :
      source \in Sources, stringifies \in BOOLEAN, type \in MessageTypes }

\* a MessageEvent: sameWindow is event.source === window, sameOrigin is
\* event.origin === window.origin
MessageEvents ==
  { [sameWindow |-> sameWindow, sameOrigin |-> sameOrigin, data |-> data] :
      sameWindow \in BOOLEAN, sameOrigin \in BOOLEAN, data \in DataVals }

\* data.source as a condition
truthy(source) == source.present /\ (~source.printable \/ source.text # << >>)

\* the logging the content listener does before its checks:
\* String(data.source).includes('pinstats'), then JSON.stringify(data)
logThrows(data) ==
  /\ data.isObject
  /\ truthy(data.source)
  /\ \/ ~data.source.printable
     \/ includes(data.source.text, pinstatsWord) /\ ~data.stringifies

\* message?.source === tag
tagged(data, tag) == data.isObject /\ data.source = TextSource(tag)

\* the first check of the content listener that event fails
contentFailed(event) ==
  IF ~event.sameWindow THEN "source"
  ELSE IF ~event.sameOrigin THEN "origin"
  ELSE IF ~tagged(event.data, SOURCE_ID) THEN "tag"
  ELSE "none"

\* the first check of the injector listener that event fails
injectorFailed(event) ==
  IF ~event.sameWindow THEN "source"
  ELSE IF ~tagged(event.data, CONTENT_SOURCE_ID) THEN "tag"
  ELSE "none"

\* the content script's listener called with event
contentOnMessage(event) ==
  /\ heard' = Heard("content", contentFailed(event), logThrows(event.data))
  /\ UNCHANGED extractVars
  /\ IF logThrows(event.data) \/ contentFailed(event) # "none"
     THEN UNCHANGED <<now, cacheVars, contentVars>>
     ELSE \/ event.data.type = "injector-ready" /\ onInjectorReady
          \/ event.data.type = "pin-stats" /\ onPinStats(event.data.pinID, event.data.pinData)
          \/ event.data.type = "fetch-stats" /\ UNCHANGED <<now, cacheVars, contentVars>>

\* the injector's listener called with event
injectorOnMessage(event) ==
  /\ heard' = Heard("injector", injectorFailed(event), FALSE)
  /\ UNCHANGED extractVars
  /\ IF injectorFailed(event) # "none"
     THEN UNCHANGED <<now, fetchVars>>
     ELSE IF event.data.type = "fetch-stats"
     THEN onFetchStats(event.data.pinIDs)
     ELSE UNCHANGED <<now, fetchVars>>

\* Both listeners under every message event, with the scans and the timer of
\* the content script
ListenerNext ==
  \/ (\E pinID \in PinIDs : requestStatsFetch(pinID)) /\ FetcherIdle
  \/ fetchTimerFire /\ FetcherIdle
  \/ (\E event \in MessageEvents : contentOnMessage(event)) /\ UNCHANGED <<fetchVars, retryVars>>
  \/ (\E event \in MessageEvents : injectorOnMessage(event))
       /\ UNCHANGED <<cacheVars, contentVars, retryVars>>

SpecListener == ChannelInit /\ [][ListenerNext]_vars

----------------------------------------------------------------------------
(***************************************************************************)
(* The handshake and the messages of both sides                            *)
(***************************************************************************)
\* the targetOrigin of the injector's window.postMessage calls: window.origin
\* in the first copy of the file, '*' in the second
injectorTargetOrigin(c) == IF c = 1 THEN "window.origin" ELSE "*"

\* the targetOrigin of the content script's window.postMessage call
contentTargetOrigin == "window.origin"

\* top level of the injector: setupMessageListener()
setupMessageListener ==
  /\ ~provider.listening
  /\ provider' = [provider EXCEPT !.listening = TRUE]
  /\ UNCHANGED <<heard, extracted, walked, hooked, wire, copy, flight>>

\* signalReady() called before setupMessageListener()
signalReadyFirst ==
  /\ provider.signals = 0
  /\ provider' = [provider EXCEPT !.signals = 1]
  /\ wire' = Message(SOURCE_ID, "injector-ready", injectorTargetOrigin(copy))
  /\ UNCHANGED <<heard, extracted, walked, hooked, copy, flight>>

\* top level of the injector, after setupMessageListener(): signalReady()
signalReady ==
  /\ provider.listening
  /\ provider.signals = 0
  /\ provider' = [provider EXCEPT !.signals = 1]
  /\ wire' = Message(SOURCE_ID, "injector-ready", injectorTargetOrigin(copy))
  /\ UNCHANGED <<heard, extracted, walked, hooked, copy, flight>>

\* function sendToContentScript(pinID, pinData), called by processApiResponse
\* and fetchPinStats once the injector runs
sendToContentScript(pinID, pinData) ==
  /\ provider.listening
  /\ wire' = Message(SOURCE_ID, "pin-stats", injectorTargetOrigin(copy))
  /\ UNCHANGED <<heard, extracted, walked, hooked, copy, provider, flight>>

\* window.postMessage(message, window.origin) in the callback of fetchTimer
postsFetchStats ==
  /\ wire' = IF fetchQueue = << >> THEN wire
             ELSE Message(CONTENT_SOURCE_ID, "fetch-stats", contentTargetOrigin)
  /\ UNCHANGED <<heard, extracted, walked, hooked, copy, provider, flight>>

\* the content script runs and injects either copy of the injector
HandshakeInit ==
  /\ now = 0
  /\ cache \in LoadedCaches
  /\ touched = [id \in PinIDs |-> IF MapHas(cache, id) THEN 0 ELSE -1]
  /\ initialized = TRUE
  /\ loading = 0
  /\ storage = NoStorage
  /\ result = NoResult
  /\ ContentInit
  /\ FetcherInit
  /\ RetryInit
  /\ heard = Heard("none", "none", FALSE)
  /\ extracted = Extracted(FALSE, EmptyRaw, Gave(<< >>))
  /\ walked = Extracted(FALSE, Entry("body", EmptyRaw), Gave(<< >>))
  /\ hooked = NotHooked
  /\ wire = NoMessage
  /\ copy \in {1, 2}
  /\ provider = NotLoaded
  /\ flight = NoFlight

\* the scans of the content script, the start of the injector, and the
\* messages of both sides; injector-ready is received after it was posted
HandshakeNext ==
  \/ (\E pinID \in PinIDs : requestStatsFetch(pinID)) /\ FetcherIdle
  \/ setupMessageListener /\ UNCHANGED <<now, cacheVars, contentVars, fetchVars, retryVars>>
  \/ signalReady /\ UNCHANGED <<now, cacheVars, contentVars, fetchVars, retryVars>>
  \/ (provider.signals > 0 /\ onInjectorReady) /\ FetcherIdle
  \/ (\E pinID \in PinIDs, pinData \in PinDataVals : sendToContentScript(pinID, pinData))
       /\ UNCHANGED <<now, cacheVars, contentVars, fetchVars, retryVars>>
  \/ fetchTimerFire /\ postsFetchStats /\ UNCHANGED <<fetchVars, retryVars>>
  \/ continuationFire /\ FetcherIdle

SpecHandshake == HandshakeInit /\ [][HandshakeNext]_vars

\* the most pin-stats messages under way at a time
MaxInbox == 1

\* the outcomes of one fetchPinStats call
Outcomes == {"429", "notOk", "networkError", "parseError"} \cup Payloads

RECURSIVE fetchPinStatsEach(_, _, _)
\* the fetchPinStats calls that a fetch-stats message with pinIDs leads to,
\* each up to its first await: fetchedPins after them and the ids whose
\* request went out
fetchPinStatsEach(fp, pinIDs, t) ==
  IF pinIDs = << >> THEN [fetchedPins |-> fp, asked |-> {}]
  ELSE LET called == fetchPinStatsCall(fp, Head(pinIDs), t)
           rest == fetchPinStatsEach(called.fetchedPins, Tail(pinIDs), t)
       IN [fetchedPins |-> rest.fetchedPins,
           asked |-> rest.asked \cup (IF called.call.stage = "fetch" THEN {Head(pinIDs)} ELSE {})]

\* the fetch-stats message posted by the timer callback reaches the
\* injector's listener, whose fetchBatchParallel calls fetchPinStats for
\* each id
asksProvider ==
  LET called == fetchPinStatsEach(fetchedPins, spliceBatch(fetchQueue), now)
  IN /\ fetchedPins' = called.fetchedPins
     /\ flight' = [flight EXCEPT !.asked = @ \cup called.asked]
     /\ UNCHANGED <<batches, settled>>

\* the fetchPinStats(pinID) call settles having met outcome: only for a
\* response with an extractable record it calls sendToContentScript
fetchPinStatsSettles(pinID, outcome, pinData) ==
  /\ pinID \in flight.asked
  /\ outcome = "data" => Len(flight.inbox) < MaxInbox
  /\ fetchedPins' = IF fetchPinStatsEnds(outcome).release THEN MapDelete(fetchedPins, pinID)
                    ELSE fetchedPins
  /\ flight' = [asked |-> flight.asked \ {pinID},
                inbox |-> IF outcome = "data"
                          THEN Append(flight.inbox, [pinID |-> pinID, pinData |-> pinData])
                          ELSE flight.inbox]
  /\ UNCHANGED <<batches, settled>>

\* processApiResponse finds a record in a response of the page and calls
\* sendToContentScript
passiveStats(pinID, pinData) ==
  /\ injectorReady
  /\ Len(flight.inbox) < MaxInbox
  /\ flight' = [flight EXCEPT !.inbox = Append(@, [pinID |-> pinID, pinData |-> pinData])]
  /\ UNCHANGED fetchVars

\* the content script's listener receives the oldest pin-stats message
pinStatsArrives ==
  /\ flight.inbox # << >>
  /\ onPinStats(Head(flight.inbox).pinID, Head(flight.inbox).pinData)
  /\ flight' = [flight EXCEPT !.inbox = Tail(@)]
  /\ UNCHANGED fetchVars

RoundTripIdle == UNCHANGED <<retryVars, heard, extracted, walked, hooked, wire, copy, provider>>

\* requests of the content script, the fetches they lead to, and the records
\* that come back
RoundTripNext ==
  \/ (\E pinID \in PinIDs : requestStatsFetch(pinID)) /\ UNCHANGED <<fetchVars, flight>> /\ RoundTripIdle
  \/ onInjectorReady /\ UNCHANGED <<fetchVars, flight>> /\ RoundTripIdle
  \/ fetchTimerFire /\ asksProvider /\ RoundTripIdle
  \/ continuationFire /\ UNCHANGED <<fetchVars, flight>> /\ RoundTripIdle
  \/ (\E pinID \in PinIDs, outcome \in Outcomes :
        fetchPinStatsSettles(pinID, outcome, DetailedData))
       /\ UNCHANGED <<now, cacheVars, contentVars>> /\ RoundTripIdle
  \/ passiveStats(1, DetailedData)
       /\ UNCHANGED <<now, cacheVars, contentVars>> /\ RoundTripIdle
  \/ pinStatsArrives /\ RoundTripIdle

\* the first scan on a page, with nothing restored from storage
RoundTripInit ==
  /\ ChannelInit
  /\ cache = << >>

\* every timeout runs, every request settles, every message arrives
SpecRoundTrip ==
  /\ RoundTripInit
  /\ [][RoundTripNext]_vars
  /\ WF_vars(fetchTimerFire /\ asksProvider /\ RoundTripIdle)
  /\ WF_vars(continuationFire /\ UNCHANGED <<fetchVars, flight>> /\ RoundTripIdle)
  /\ WF_vars((\E pinID \in PinIDs, outcome \in Outcomes :
                fetchPinStatsSettles(pinID, outcome, DetailedData))
             /\ UNCHANGED <<now, cacheVars, contentVars>> /\ RoundTripIdle)
  /\ WF_vars(pinStatsArrives /\ RoundTripIdle)

----------------------------------------------------------------------------
\* extractPinData(record) is called
extractPinDataCall(record) ==
  /\ extracted' = Extracted(TRUE, record, extractPinData(record))
  /\ UNCHANGED <<heard, walked, hooked, wireVars>>

\* extractPinData applied to every raw object of RawVals
ExtractNext ==
  (\E record \in RawVals : extractPinDataCall(record))
    /\ UNCHANGED <<now, cacheVars, contentVars, fetchVars, retryVars>>

SpecExtract == FetchInit /\ [][ExtractNext]_vars

\* extractAllPins(data) is called with the payload that arrived
extractAllPinsCall ==
  /\ ~walked.called
  /\ walked' = Extracted(TRUE, walked.input, extractAllPins(walked.input))
  /\ UNCHANGED <<heard, extracted, hooked, wireVars>>

\* a payload of ResponseData has arrived
WalkInit ==
  /\ now = 0
  /\ cache = << >>
  /\ touched = [id \in PinIDs |-> -1]
  /\ initialized = TRUE
  /\ loading = 0
  /\ storage = NoStorage
  /\ result = NoResult
  /\ ContentInit
  /\ FetcherInit
  /\ RetryInit
  /\ heard = Heard("none", "none", FALSE)
  /\ extracted = Extracted(FALSE, EmptyRaw, Gave(<< >>))
  /\ \E data \in ResponseData : walked = Extracted(FALSE, data, Gave(<< >>))
  /\ hooked = NotHooked
  /\ wire = NoMessage
  /\ copy = 1
  /\ provider = NotLoaded
  /\ flight = NoFlight

\* extractAllPins applied to every payload of ResponseData
WalkNext ==
  extractAllPinsCall /\ UNCHANGED <<now, cacheVars, contentVars, fetchVars, retryVars>>

SpecWalk == WalkInit /\ [][WalkNext]_vars

----------------------------------------------------------------------------
(***************************************************************************)
(* Injector: the patched fetch and the patched XMLHttpRequest              *)
(***************************************************************************)
\* the responseType values of an XMLHttpRequest
ResponseTypes == {"", "text", "json", "blob"}

\* the page calls fetch(input, init), which is patchedFetch: originalFetch is
\* called and awaited; api is isPinterestApiUrl(url)
patchedFetchCall(api) ==
  /\ hooked.phase \in {"idle", "done"}
  /\ hooked' = [NotHooked EXCEPT !.via = "fetch", !.api = api, !.phase = "original"]
  /\ UNCHANGED <<heard, extracted, walked, wireVars>>

\* the original fetch rejects: the await throws and patchedFetch rejects with
\* the same error
pageFetchRejects ==
  /\ hooked.via = "fetch"
  /\ hooked.phase = "original"
  /\ hooked' = [hooked EXCEPT !.phase = "done", !.original = "error", !.page = "error"]
  /\ UNCHANGED <<heard, extracted, walked, wireVars>>

\* the original fetch resolves with its Response: for a url that is no API
\* url patchedFetch returns it; for an API url it clones it and awaits
\* cloned.json()
pageFetchResolves ==
  /\ hooked.via = "fetch"
  /\ hooked.phase = "original"
  /\ hooked' = IF hooked.api
                THEN [hooked EXCEPT !.phase = "reading", !.original = "response"]
                ELSE [hooked EXCEPT !.phase = "done", !.original = "response", !.page = "response"]
  /\ UNCHANGED <<heard, extracted, walked, wireVars>>

\* cloned.json() resolves with the parsed body: processApiResponse runs and
\* patchedFetch returns the Response
clonedJsonResolves(data) ==
  /\ hooked.via = "fetch"
  /\ hooked.phase = "reading"
  /\ hooked' = [hooked EXCEPT !.phase = "done", !.page = "response", !.body = <<data>>,
                               !.ran = TRUE, !.processed = processApiResponse(data)]
  /\ UNCHANGED <<heard, extracted, walked, wireVars>>

\* cloned.json() rejects, the body is no JSON: the catch swallows it and
\* patchedFetch returns the Response
clonedJsonRejects ==
  /\ hooked.via = "fetch"
  /\ hooked.phase = "reading"
  /\ hooked' = [hooked EXCEPT !.phase = "done", !.page = "response"]
  /\ UNCHANGED <<heard, extracted, walked, wireVars>>

\* the page calls xhr.send(body) after xhr.open(method, url): for an API url
\* a load listener is added, then the original send is called
xhrSend(api) ==
  /\ hooked.phase \in {"idle", "done"}
  /\ hooked' = [NotHooked EXCEPT !.via = "xhr", !.api = api, !.phase = "original"]
  /\ UNCHANGED <<heard, extracted, walked, wireVars>>

\* the request fails: no load event
xhrError ==
  /\ hooked.via = "xhr"
  /\ hooked.phase = "original"
  /\ hooked' = [hooked EXCEPT !.phase = "done", !.original = "error", !.page = "error"]
  /\ UNCHANGED <<heard, extracted, walked, wireVars>>

\* the load event of the request: the listener added by send parses
\* responseText for the responseType '' or 'text', takes xhr.response (null
\* for a body that is no JSON) for 'json', and does nothing otherwise; its
\* try/catch swallows what JSON.parse throws. body is << >> for no JSON
xhrLoad(responseType, body) ==
  /\ hooked.via = "xhr"
  /\ hooked.phase = "original"
  /\ hooked' =
       IF ~hooked.api \/ responseType \notin {"", "text", "json"}
          \/ (responseType \in {"", "text"} /\ body = << >>)
       THEN [hooked EXCEPT !.phase = "done", !.original = "response", !.page = "response"]
       ELSE LET data == IF body = << >> THEN PrimEntry("body", JsNull) ELSE body[1]
            IN [hooked EXCEPT !.phase = "done", !.original = "response", !.page = "response",
                              !.body = body, !.ran = TRUE, !.processed = processApiResponse(data)]
  /\ UNCHANGED <<heard, extracted, walked, wireVars>>

InterceptIdle == UNCHANGED <<now, cacheVars, contentVars, fetchVars, retryVars>>

\* one request of the page at a time through the patched fetch or the patched
\* XMLHttpRequest
InterceptNext ==
  \/ (\E api \in BOOLEAN : patchedFetchCall(api)) /\ InterceptIdle
  \/ pageFetchRejects /\ InterceptIdle
  \/ pageFetchResolves /\ InterceptIdle
  \/ (\E data \in ApiBodies : clonedJsonResolves(data)) /\ InterceptIdle
  \/ clonedJsonRejects /\ InterceptIdle
  \/ (\E api \in BOOLEAN : xhrSend(api)) /\ InterceptIdle
  \/ xhrError /\ InterceptIdle
  \/ (\E responseType \in ResponseTypes, body \in {<< >>} \cup {<<data>> : data \in ApiBodies} :
        xhrLoad(responseType, body)) /\ InterceptIdle

SpecIntercept == FetchInit /\ [][InterceptNext]_vars

----------------------------------------------------------------------------
(***************************************************************************)
(* Properties of the cache                                                 *)
(***************************************************************************)

\* C1: the cache never holds more than MAX_CACHE_SIZE entries (each id at most
\* once), and an operation whose insertions pushed the size past the maximum
\* (evictIfNeeded logged a positive number) leaves exactly MAX_CACHE_SIZE.
C1_SizeWithinMax ==
  /\ Len(cache) <= MAX_CACHE_SIZE
  /\ Cardinality(Keys(cache)) = Len(cache)
  /\ result.evicted > 0 => Len(cache) = MAX_CACHE_SIZE

\* an operation has just evicted and left the cache full
C1_Witness == result.evicted > 0 /\ Len(cache) = MAX_CACHE_SIZE

\* C2: get(id) returns the stored record exactly when an entry for id exists
\* and now - timestamp <= TTL, else undefined; an expired entry is removed by
\* the read (the size drops by one); a returned record is never older than TTL.
C2_GetFreshOrMiss ==
  [][result'.op = "get" =>
       LET id == result'.id
           exists == MapHas(cache, id)
           fresh == exists /\ now - MapGet(cache, id).timestamp <= CACHE_TTL_MS
       IN /\ fresh => /\ result'.value = Some(MapGet(cache, id).data)
                      /\ MapHas(cache', id)
                      /\ Len(cache') = Len(cache)
          /\ ~fresh => result'.value = Undefined
          /\ (exists /\ ~fresh) => /\ ~MapHas(cache', id)
                                   /\ Len(cache') = Len(cache) - 1
          /\ ~exists => cache' = cache]_vars

\* a get has just missed on an entry older than TTL, which is gone, while an
\* entry of age TTL is still there
C2_Witness ==
  /\ result.op = "get"
  /\ result.value = Undefined
  /\ ~MapHas(cache, result.id)
  /\ Len(cache) = 1
  /\ now - cache[1].timestamp = CACHE_TTL_MS

\* after is before without its least recently accessed entries beyond the maximum
EvictedLeastRecent(before, after) ==
  LET removed == Keys(before) \ Keys(after)
  IN /\ Keys(after) \subseteq Keys(before)
     /\ \A k \in Keys(after) : MapGet(after, k) = MapGet(before, k)
     /\ Cardinality(removed) =
          IF Len(before) > MAX_CACHE_SIZE THEN Len(before) - MAX_CACHE_SIZE ELSE 0
     /\ \A r \in removed, k \in Keys(after) :
          MapGet(before, r).lastAccessed <= MapGet(after, k).lastAccessed

\* C3: eviction is LRU. The lastAccessed of every entry is the time of its last
\* access by set, get or update; a set or load that exceeds the maximum by k
\* removes exactly k entries, each accessed no more recently than any survivor.
C3_EvictionIsLRU ==
  /\ [](\A i \in DOMAIN cache : cache[i].lastAccessed = touched[cache[i].key])
  /\ [][result'.evicted > 0 =>
          /\ \A pinID \in PinIDs, data \in PinDataVals :
               set(pinID, data) =>
                 EvictedLeastRecent(
                   MapSet(cache, pinID, CacheEntry(pinID, data, now, now)), cache')
          /\ initFromStorageResume =>
               EvictedLeastRecent(importStored(cache, storage.entries, now), cache')]_vars

\* a set has evicted the entry inserted second: the survivors are the one
\* inserted first, which a get had refreshed, and the new one
C3_Witness ==
  /\ result.evicted = 1
  /\ ~initialized
  /\ Len(cache) = 2
  /\ cache[1].timestamp < cache[1].lastAccessed
  /\ cache[2].timestamp = now
  /\ cache[1].lastAccessed < now
----------------------------------------------------------------------------
SpecRetryInit ==
  /\ now = 0
  /\ cache = << >>
  /\ touched = [id \in PinIDs |-> -1]
  /\ initialized = TRUE
  /\ loading = 0
  /\ storage = NoStorage
  /\ result = NoResult
  /\ ContentInit
  /\ FetcherInit
  /\ RetryInit
  /\ HookInit

OnlyRetry == UNCHANGED <<now, cacheVars, contentVars, fetchVars, hookVars>>

\* One retryWithBackoff call with every course of fn, and isRetryableError
\* applied to every kind of value
RetryNext ==
  \/ (\E maxRetriesOption \in {<< >>} \cup {<<n>> : n \in 0..MaxRetriesOption},
         timeoutOption \in {<< >>, <<DEFAULT_TIMEOUT_MS \div 2>>} :
        retryWithBackoffCall(maxRetriesOption, timeoutOption)) /\ OnlyRetry
  \/ (\E fnResult \in FnResults : fnResolves(fnResult)) /\ OnlyRetry
  \/ (\E error \in FnErrors : fnRejects(error)) /\ OnlyRetry
  \/ backoffTimerFires /\ OnlyRetry
  \/ timePasses /\ OnlyRetry
  \/ (\E value \in ClassifyInputs : classify(value)) /\ OnlyRetry

SpecRetry == SpecRetryInit /\ [][RetryNext]_vars

----------------------------------------------------------------------------
(***************************************************************************)
(* Properties of the content script's side of the channel                  *)
(***************************************************************************)

\* the cache holds an unexpired record for id with repins > 0 or comments > 0
CachedComplete(id) ==
  /\ MapHas(cache, id)
  /\ now - MapGet(cache, id).timestamp <= CACHE_TTL_MS
  /\ \/ MapGet(cache, id).data.engagement.repins > 0
     \/ MapGet(cache, id).data.engagement.comments > 0

NoDuplicates(q) == \A i, j \in DOMAIN q : q[i] = q[j] => i = j

\* C4: before injector-ready arrives nothing is posted and nothing is queued
\* for posting; requestStatsFetch(id) for an id not cached complete leaves id
\* in the backlog exactly once (appended if absent); and no id leaves the
\* backlog while injector-ready has not arrived.
C4_HeldInBacklog ==
  /\ [](~injectorReady =>
          /\ posted = << >> /\ fetchQueue = << >> /\ ~fetchTimer /\ pendingRequests = {}
          /\ NoDuplicates(pendingFetchRequests))
  /\ [][\A pinID \in PinIDs :
          (~injectorReady /\ requestStatsFetch(pinID) /\ ~CachedComplete(pinID)) =>
             /\ pendingFetchRequests' =
                  IF pinID \in Range(pendingFetchRequests) THEN pendingFetchRequests
                  ELSE Append(pendingFetchRequests, pinID)
             /\ posted' = posted]_vars
  /\ [][~injectorReady' =>
          /\ Len(pendingFetchRequests') >= Len(pendingFetchRequests)
          /\ SubSeq(pendingFetchRequests', 1, Len(pendingFetchRequests))
               = pendingFetchRequests]_vars

\* two ids are held in the backlog, a third is cached complete and not held
C4_Witness ==
  /\ ~injectorReady
  /\ Len(pendingFetchRequests) = 2
  /\ \E pinID \in PinIDs : CachedComplete(pinID) /\ pinID \notin Range(pendingFetchRequests)

\* C5: on injector-ready the content script becomes ready and empties the
\* backlog, and the first fetch-stats message after it lists all held ids in
\* the order they were first requested, none of them being left for a later
\* message.
C5_BacklogInOneMessage ==
  /\ [][onInjectorReady => (injectorReady' /\ pendingFetchRequests' = << >>)]_vars
  /\ [][(held # << >> /\ held' = << >>) =>
          /\ Len(posted') >= Len(held)
          /\ SubSeq(posted', 1, Len(held)) = held
          /\ Range(held) \cap Range(fetchQueue') = {}]_vars

\* C6: no id is posted in a fetch-stats message while an earlier fetch-stats
\* message that listed it has not been answered by a pin-stats message.
C6_NoRepeatedRequest ==
  [][(fetchTimerFire /\ fetchQueue # << >>) =>
       Range(posted') \cap unanswered = {}]_vars
----------------------------------------------------------------------------
(***************************************************************************)
(* Properties of the injector's direct fetcher                             *)
(***************************************************************************)

\* the calls of the invocations bs, as <<invocation, position>>
CallsIn(bs) == {kp \in (DOMAIN bs) \X (1..MaxCalls) : kp[2] \in DOMAIN bs[kp[1]].pinIDs}

RECURSIVE Requests(_, _)
\* the number of requests for id that originalFetch has not answered
Requests(bs, id) ==
  IF bs = << >> THEN 0
  ELSE Cardinality({p \in DOMAIN Head(bs).pinIDs :
                      Head(bs).pinIDs[p] = id /\ Head(bs).calls[p].stage = "fetch"})
       + Requests(Tail(bs), id)

\* the invocations bs without the k-th
Without(bs, k) == SubSeq(bs, 1, k - 1) \o SubSeq(bs, k + 1, Len(bs))

\* C7: fetchPinStats never rejects and no fetchBatchParallel invocation is
\* left by an exception; it resolves with rateLimited = true exactly when the
\* response status was 429, and with false for every other status, payload
\* or exception; a window is left only when every call of it has settled,
\* whatever the calls met.
C7_NeverRejects ==
  /\ ~settled.rejects
  /\ settled.outcome # "none" => (settled.rateLimited <=> settled.outcome = "429")
  /\ \A k \in DOMAIN batches :
       /\ batches[k].pc \in {"fetching", "delay", "backoff"}
       /\ \A p \in DOMAIN batches[k].pinIDs : batches[k].calls[p].stage # "rejected"
       /\ batches[k].pc \in {"delay", "backoff"} =>
            \A p \in slice(batches[k]) : batches[k].calls[p].stage = "settled"
       /\ batches[k].pc = "fetching" =>
            \E p \in slice(batches[k]) : batches[k].calls[p].stage \in {"fetch", "json"}

\* a call has just ended by a network error while another call of its window
\* is still awaiting its response
C7_Witness ==
  /\ settled.outcome = "networkError"
  /\ \E k \in DOMAIN batches :
       /\ batches[k].pc = "fetching"
       /\ \E p, q \in slice(batches[k]) :
            /\ batches[k].pinIDs[p] = settled.pinID
            /\ batches[k].calls[p].stage = "settled"
            /\ batches[k].calls[q].stage = "fetch"

\* C8: a fetchPinStats(id) call that settles deletes id from fetchedPins when
\* it met status 429 or an exception, and leaves fetchedPins as it is after
\* any other response; requests are issued only for ids that fetchedPins does
\* not hold, one per id, which it then holds; and the first call of a new
\* fetchBatchParallel invocation issues a request exactly when fetchedPins
\* does not hold its id.
C8_ReleasedIffRetryable ==
  /\ [][settled'.outcome # "none" =>
          IF settled'.outcome \in {"429", "networkError", "parseError"}
          THEN ~MapHas(fetchedPins', settled'.pinID)
          ELSE fetchedPins' = fetchedPins]_vars
  /\ [][batches' # batches =>
          \A id \in PinIDs :
             Requests(batches', id) > Requests(batches, id) =>
               /\ ~MapHas(fetchedPins, id)
               /\ MapHas(fetchedPins', id)
               /\ Requests(batches', id) = Requests(batches, id) + 1]_vars
  /\ [][(Len(batches') = Len(batches) + 1 /\ settled'.outcome = "none") =>
          LET b == batches'[Len(batches')]
          IN (b.calls[1].stage = "fetch") <=> ~MapHas(fetchedPins, b.pinIDs[1])]_vars

\* an id that met 429 in one window is requested again in a later window of
\* the same invocation
C8_Witness ==
  \E k \in DOMAIN batches : \E p, q \in DOMAIN batches[k].pinIDs :
    /\ p < q
    /\ batches[k].pinIDs[p] = batches[k].pinIDs[q]
    /\ batches[k].calls[p].stage = "settled" /\ batches[k].calls[p].rateLimited
    /\ batches[k].calls[q].stage = "fetch"
    /\ MapHas(fetchedPins, batches[k].pinIDs[q])

\* C9: a fetchBatchParallel invocation has handed to fetchPinStats exactly the
\* ids of its windows so far, in input order and each position once, a window
\* being at most CONCURRENT_LIMIT consecutive positions; every call of an
\* earlier window has settled before a call of the current window is made; and
\* the invocation ends only after its last window (whose calls settle at once
\* when fetchedPins holds all its ids).
C9_WindowsAndBarrier ==
  /\ [](\A k \in DOMAIN batches :
          LET b == batches[k]
              upTo == IF b.i + CONCURRENT_LIMIT < Len(b.pinIDs)
                      THEN b.i + CONCURRENT_LIMIT ELSE Len(b.pinIDs)
          IN /\ b.i % CONCURRENT_LIMIT = 0 /\ b.i < Len(b.pinIDs)
             /\ b.handed = SubSeq(b.pinIDs, 1, upTo)
             /\ \A p \in DOMAIN b.pinIDs :
                  /\ (b.calls[p].stage # "notcalled") <=> (p <= upTo)
                  /\ p <= b.i => b.calls[p].stage = "settled")
  /\ [][Len(batches') < Len(batches) =>
          \E k \in DOMAIN batches :
             /\ Without(batches, k) = batches'
             /\ \/ batches[k].handed = batches[k].pinIDs
                \/ /\ batches[k].pc \in {"delay", "backoff"}
                   /\ Len(batches[k].pinIDs) <= batches[k].i + 2 * CONCURRENT_LIMIT
                   /\ \A p \in DOMAIN batches[k].pinIDs :
                        p > Len(batches[k].handed) =>
                          MapHas(fetchedPins, batches[k].pinIDs[p])]_vars

\* the second window of three ids is under way, the first window has settled
C9_Witness ==
  \E k \in DOMAIN batches :
    /\ Len(batches[k].pinIDs) = 3
    /\ batches[k].i = CONCURRENT_LIMIT
    /\ batches[k].calls[1].stage = "settled" /\ batches[k].calls[2].stage = "settled"
    /\ batches[k].calls[3].stage = "fetch"

\* C10: at most CONCURRENT_LIMIT requests of fetchPinStats are awaiting their
\* response at any time, over all fetchBatchParallel invocations.
C10_AtMostLimitInFlight ==
  Cardinality({kp \in CallsIn(batches) :
                 batches[kp[1]].calls[kp[2]].stage = "fetch"}) <= CONCURRENT_LIMIT
\* C11: for every pin id at most one request of fetchPinStats is awaiting its
\* response at any time, over all calls of all fetchBatchParallel invocations.
C11_OneRequestPerId ==
  \A id \in PinIDs : Requests(batches, id) <= 1
----------------------------------------------------------------------------
(***************************************************************************)
(* Properties of utils/retry                                               *)
(***************************************************************************)

\* an fn() call that failed: it rejected, or resolved with a failed response
\* that is retryable
Failed(call) ==
  \/ call.how = "rejected"
  \/ /\ call.value.kind = "object" /\ call.value.hasOk /\ call.value.hasStatus
     /\ ~call.value.ok
     /\ isRetryableError(call.value)

RetryableFailure(call) == Failed(call) /\ isRetryableError(call.value)

\* C12: retryWithBackoff calls fn at most maxRetries times, each call but the
\* last having failed retryably; the k-th wait (k = 0, 1, ...) is 1000 * 2^k
\* ms and there is one wait between two consecutive calls and none after the
\* last; it returns the first result that is not a failure, and throws the
\* last failure when the maxRetries-th call failed retryably.
C12_RetrySchedule ==
  LET n == Len(retry.invoked)
  IN /\ n <= retry.maxRetries
     /\ retry.waits = [k \in 1..Len(retry.waits) |-> 1000 * pow2(k - 1)]
     /\ \A k \in 1..(n - 1) : RetryableFailure(retry.invoked[k])
     /\ retry.pc = "calling" => (n = retry.attempt /\ Len(retry.waits) = n)
     /\ retry.pc = "waiting" =>
          /\ n = retry.attempt + 1 /\ n < retry.maxRetries /\ Len(retry.waits) = n
          /\ RetryableFailure(retry.invoked[n])
     /\ retry.pc = "returned" =>
          /\ n >= 1 /\ Len(retry.waits) = n - 1
          /\ ~Failed(retry.invoked[n])
          /\ retry.settledWith = retry.invoked[n].value
     /\ retry.pc = "threw" =>
          /\ Len(retry.waits) = IF n = 0 THEN 0 ELSE n - 1
          /\ n = 0 => (retry.maxRetries = 0 /\ retry.settledWith = Primitive("undefined"))
          /\ n > 0 => /\ Failed(retry.invoked[n])
                      /\ retry.settledWith = retry.invoked[n].value
                      /\ RetryableFailure(retry.invoked[n]) => n = retry.maxRetries

\* with the default maxRetries, fn failed twice retryably and then succeeded:
\* three calls, waits of 1000 ms and 2000 ms
C12_Witness ==
  /\ retry.pc = "returned"
  /\ retry.maxRetries = MAX_RETRIES
  /\ Len(retry.invoked) = 3
  /\ retry.invoked[1].how = "rejected" /\ retry.invoked[2].how = "resolved"
  /\ retry.waits = <<1000, 2000>>

\* C13: an fn() call that rejects with a non-retryable error is the last one:
\* no wait follows it and retryWithBackoff throws that error as it is; a call
\* that resolves with a failed response that is not retryable is the last one
\* too, and the response is returned. When it is the first call, fn has been
\* called exactly once and nothing was waited for.
C13_NoRetryOnNonRetryable ==
  LET n == Len(retry.invoked)
  IN \A k \in 1..n :
       LET call == retry.invoked[k]
           response == call.value.kind = "object" /\ call.value.hasOk /\ call.value.hasStatus
       IN /\ (call.how = "rejected" /\ ~isRetryableError(call.value)) =>
               /\ k = n /\ retry.pc = "threw"
               /\ retry.settledWith = call.value
               /\ Len(retry.waits) = n - 1
          /\ (call.how = "resolved" /\ response /\ ~call.value.ok
                /\ ~isRetryableError(call.value)) =>
               /\ k = n /\ retry.pc = "returned"
               /\ retry.settledWith = call.value
               /\ Len(retry.waits) = n - 1

\* the first call rejected with a non-retryable error although more attempts
\* were allowed
C13_Witness ==
  /\ retry.pc = "threw"
  /\ retry.maxRetries > 1
  /\ Len(retry.invoked) = 1
  /\ retry.invoked[1].how = "rejected"
  /\ ~isRetryableError(retry.invoked[1].value)
  /\ retry.waits = << >>

\* C14: no fn() call stays unsettled for longer than the timeout of the
\* retryWithBackoff call: when the budget is exceeded the attempt is over.
C14_AttemptWithinTimeout ==
  retry.pc = "calling" => retry.elapsed <= retry.timeout
\* a response-like object that failed with status 429 or 500..599
RetryableResponse(value) ==
  /\ value.kind = "object" /\ value.hasStatus /\ ~value.ok
  /\ value.status = 429 \/ value.status \in 500..599

\* C15 as stated: isRetryableError answers true exactly for a TypeError, for an
\* Error whose message contains 'fetch' or 'network' as written, and for a
\* failed response with status 429 or 500..599; false for every other value.
C15_RetryableAsWritten ==
  classified.retryable <=>
    \/ classified.value.kind = "TypeError"
    \/ /\ classified.value.kind = "Error"
       /\ \/ includes(classified.value.message, fetchWord)
          \/ includes(classified.value.message, networkWord)
    \/ RetryableResponse(classified.value)

\* C15 amended: isRetryableError answers true exactly for a TypeError, for an
\* Error whose message contains 'fetch' or 'network' in any letter case, and
\* for a failed response with status 429 or 500..599; false for every other
\* 4xx response, every response with ok = true, and every value that is
\* neither an error nor a response.
C15_RetryableIgnoringCase ==
  classified.retryable <=>
    \/ classified.value.kind = "TypeError"
    \/ /\ classified.value.kind = "Error"
       /\ \E word \in {fetchWord, networkWord} :
            \E i \in 1..Len(classified.value.message) :
              /\ i + Len(word) - 1 <= Len(classified.value.message)
              /\ \A j \in 1..Len(word) :
                   LET c == classified.value.message[i + j - 1]
                   IN \/ c = word[j]
                      \/ \E u \in DOMAIN UpperCase : UpperCase[u] = c /\ LowerCase[u] = word[j]
    \/ RetryableResponse(classified.value)

\* an Error whose message is 'NETWORK' was classified retryable
C15_Witness ==
  /\ classified.value.kind = "Error"
  /\ classified.value.message = <<"N", "E", "T", "W", "O", "R", "K">>
  /\ classified.retryable

(***************************************************************************)
(* Claims about has, set, update and persistence of the cache              *)
(***************************************************************************)

\* C16: has(id) answers as get(id) would in the same state (true exactly when
\* get would return a record), removes the entry when it is expired, and on a
\* hit leaves the whole cache as it was: lastAccessed, timestamp and record of
\* every entry, so the choice eviction makes is unaltered.
C16_HasIsGetWithoutTouch ==
  [][result'.op = "has" =>
       LET id == result'.id
       IN /\ result'.found <=> (getValue(cache, id, now) # Undefined)
          /\ result'.found => cache' = cache
          /\ ~result'.found => cache' = MapDelete(cache, id)]_vars

\* has has answered true for an entry last accessed before now, in a full cache
\* where that entry is the least recently accessed one
C16_Witness ==
  /\ result.op = "has"
  /\ result.found
  /\ Len(cache) = MAX_CACHE_SIZE
  /\ MapGet(cache, result.id).lastAccessed < now
  /\ \A i \in DOMAIN cache :
       cache[i].key # result.id => cache[i].lastAccessed > MapGet(cache, result.id).lastAccessed

\* C17: set(id, r) inserts or overwrites: afterwards the entry of id is r
\* stamped with timestamp = lastAccessed = now, and get(id) is r. For an id
\* that had an entry, whatever its record, size() is unchanged; so a second
\* set(id, r) right after the first leaves get(id) = r and size() as the first
\* call left it.
C17_SetOverwritesOrInserts ==
  [][result'.op = "set" =>
       LET pinID == result'.id
       IN \A data \in PinDataVals :
            set(pinID, data) =>
              /\ MapHas(cache', pinID)
              /\ MapGet(cache', pinID) = CacheEntry(pinID, data, now, now)
              /\ getValue(cache', pinID, now) = Some(data)
              /\ MapHas(cache, pinID) => Len(cache') = Len(cache)
              /\ (result.op = "set" /\ result.id = pinID /\ MapGet(cache, pinID).data = data) =>
                   Len(cache') = Len(cache)]_vars

\* set has replaced, at a later time, the record of an id that had an entry
\* with another record, in a full cache
C17_Witness ==
  /\ result.op = "set"
  /\ result.found
  /\ Len(cache) = MAX_CACHE_SIZE
  /\ now > 0
  /\ MapGet(cache, result.id) = CacheEntry(result.id, DetailedData, now, now)

Groups == {"engagement", "details", "externalData"}

\* new is old with the fields of given put over it
IsOverride(new, old, given) ==
  /\ DOMAIN new = (DOMAIN old) \cup (DOMAIN given)
  /\ \A f \in DOMAIN given : new[f] = given[f]
  /\ \A f \in (DOMAIN old) \ (DOMAIN given) : new[f] = old[f]

\* C18: update(id, partial) changes nothing when id has no entry. When id has
\* an entry, each group the partial gives becomes the old group overridden
\* field by field by the partial's fields, each group it does not give is as
\* it was, lastAccessed becomes now, and timestamp and size() are unchanged.
C18_UpdateMergesGroups ==
  [][result'.op = "update" =>
       LET pinID == result'.id
       IN /\ ~MapHas(cache, pinID) => cache' = cache
          /\ MapHas(cache, pinID) =>
               \A updates \in PartialVals :
                 update(pinID, updates) =>
                   LET old == MapGet(cache, pinID)
                       new == MapGet(cache', pinID)
                   IN /\ Keys(cache') = Keys(cache)
                      /\ Len(cache') = Len(cache)
                      /\ \A g \in Groups \cap DOMAIN updates :
                           IsOverride(new.data[g], old.data[g], updates[g])
                      /\ \A g \in Groups \ DOMAIN updates : new.data[g] = old.data[g]
                      /\ new.lastAccessed = now
                      /\ new.timestamp = old.timestamp
                      /\ \A k \in Keys(cache) \ {pinID} : MapGet(cache', k) = MapGet(cache, k)]_vars

\* an update has set the bookmark of a detailed record stored earlier; the
\* fields of the other groups and the title are as set stored them
C18_Witness ==
  /\ result.op = "update"
  /\ result.found
  /\ Len(cache) = 2
  /\ LET e == MapGet(cache, result.id)
     IN /\ e.timestamp < now
        /\ e.lastAccessed = now
        /\ e.data = [DetailedData EXCEPT !.externalData.bookmarked = TRUE]

\* an update of an id that has no entry has left a cache of one entry as it was
C18_WitnessAbsent ==
  /\ result.op = "update"
  /\ ~result.found
  /\ Len(cache) = 1

\* a stored value in the format with timestamps
Timestamped(entry) == "timestamp" \in DOMAIN entry /\ "data" \in DOMAIN entry

\* C19: when initFromStorage imports what is stored and nothing is evicted, a
\* stored timestamped entry is in the cache afterwards, as stored, if and only
\* if it is not expired by the test of get (now - timestamp > TTL), and every
\* stored flat record is in the cache with timestamp = lastAccessed = now.
C19_LoadKeepsUnexpired ==
  [][(initFromStorageResume /\ storage.present /\ cache = << >> /\ result'.evicted = 0) =>
       \A i \in DOMAIN storage.entries :
         LET pinID == storage.entries[i].key
             entry == storage.entries[i].val
         IN IF Timestamped(entry)
            THEN (now - entry.timestamp > CACHE_TTL_MS) <=> ~MapHas(cache', pinID)
            ELSE /\ MapHas(cache', pinID)
                 /\ MapGet(cache', pinID) = CacheEntry(pinID, entry, now, now)]_vars

\* the cache a stored value describes: its entries in their order
CacheOfStored(stored) ==
  [i \in DOMAIN stored |->
     CacheEntry(stored[i].key, stored[i].val.data, stored[i].val.timestamp,
                stored[i].val.lastAccessed)]

\* C20: when a fresh process imports what a flush stored, at most
\* MAX_CACHE_SIZE entries of which none is expired at the time of the load
\* (now - timestamp <= TTL for each), the cache afterwards holds exactly the
\* stored ids, each with the record, timestamp and lastAccessed stored.
C20_RestartRestoresCache ==
  [][(initFromStorageResume /\ cache = << >> /\ storage.present
        /\ Len(storage.entries) <= MAX_CACHE_SIZE
        /\ \A i \in DOMAIN storage.entries :
             ~(now - storage.entries[i].val.timestamp > CACHE_TTL_MS)) =>
       /\ Keys(cache') = {storage.entries[i].key : i \in DOMAIN storage.entries}
       /\ \A k \in Keys(cache') : MapGet(cache', k) = MapGet(CacheOfStored(storage.entries), k)]_vars

PersistenceOps == {"initFromStorage", "syncToStorage", "clearAll"}

\* no call of initFromStorage, syncToStorage or clearAll rejects, and once
\* initialized is set no initFromStorage call starts a read of storage
NeverRejectsNorReloads ==
  /\ result'.op \in PersistenceOps => ~result'.rejects
  /\ initialized => loading' <= loading

\* C21: a storage failure during load, flush or clearAll never rejects. A
\* failed load leaves the cache as it was (empty when nothing was stored
\* before) and sets initialized, after which no initFromStorage call reads
\* storage. A failed flush leaves the unexpired entries of the cache as they
\* were and storage unchanged, and the flush can always be attempted again.
C21_PersistenceFailsOpen ==
  /\ [](ENABLED syncToStorage(TRUE))
  /\ [][/\ NeverRejectsNorReloads
        /\ (result'.op = "initFromStorage" /\ ~result'.found) =>
             initialized' /\ cache' = cache
        /\ (result'.op = "syncToStorage" /\ ~result'.found) =>
             cache' = removeExpired(cache, now) /\ storage' = storage]_vars

\* C21 as stated: after a failed load the cache is empty, and after a failed
\* flush the cache is what it was before the flush
C21_FailedLoadEmptyFlushIntact ==
  [][/\ NeverRejectsNorReloads
     /\ (result'.op = "initFromStorage" /\ ~result'.found) =>
          initialized' /\ cache' = << >>
     /\ (result'.op = "syncToStorage" /\ ~result'.found) =>
          cache' = cache /\ storage' = storage]_vars

\* a flush has failed after an earlier one had succeeded: the cache holds its
\* two entries and storage holds what the earlier flush wrote
C21_Witness ==
  /\ result.op = "syncToStorage"
  /\ ~result.found
  /\ ~result.rejects
  /\ Len(cache) = 2
  /\ storage.present
  /\ Len(storage.entries) = 2
  /\ now > 0

\* a load has failed in a fresh process: the cache is empty and initialized
C21_WitnessLoad ==
  /\ result.op = "initFromStorage"
  /\ ~result.found
  /\ initialized
  /\ cache = << >>
  /\ storage.present

\* C22: clear() empties the in-memory cache and leaves chrome.storage.local
\* as it is; clearAll() empties the in-memory cache and, its storage call
\* succeeding, leaves nothing stored under STORAGE_KEY.
C22_ClearAndClearAll ==
  [][/\ result'.op = "clear" => cache' = << >> /\ storage' = storage
     /\ result'.op = "clearAll" =>
          /\ cache' = << >>
          /\ result'.found => storage' = NoStorage
          /\ ~result'.found => storage' = storage]_vars

\* clear has emptied the cache while storage still holds the two entries an
\* earlier flush wrote
C22_Witness ==
  /\ result.op = "clear"
  /\ cache = << >>
  /\ storage.present
  /\ Len(storage.entries) = 2

(***************************************************************************)
(* Claims about the message listeners                                      *)
(***************************************************************************)

\* C23: a message event that fails a check of the listener it reaches has no
\* effect and raises no error: the content listener leaves injectorReady, the
\* backlog, the pending set, the fetch queue and the cache as they were, the
\* injector listener starts no fetch, and neither throws.
C23_RejectedMessageIgnored ==
  [][(heard' # heard /\ heard'.failed # "none") =>
       /\ ~heard'.raised
       /\ heard'.side = "content" =>
            UNCHANGED <<injectorReady, pendingFetchRequests, pendingRequests, fetchQueue, cache>>
       /\ heard'.side = "injector" => UNCHANGED <<batches, fetchedPins>>]_vars

\* the record is complete: engagement.repins > 0 or engagement.comments > 0
Complete(data) == data.engagement.repins > 0 \/ data.engagement.comments > 0

\* the cache holds an unexpired complete record for pinID
HoldsComplete(pinID) ==
  /\ MapHas(cache, pinID)
  /\ now - MapGet(cache, pinID).timestamp <= CACHE_TTL_MS
  /\ Complete(MapGet(cache, pinID).data)

\* requestStatsFetch(pinID) puts pinID into the backlog or the queue only if
\* the cache holds no unexpired complete record for it
QueuedOnlyIfIncomplete(pinID) ==
  (\/ pinID \in Range(pendingFetchRequests') \ Range(pendingFetchRequests)
   \/ fetchQueue' # fetchQueue
   \/ pendingRequests' # pendingRequests) => ~HoldsComplete(pinID)

\* C24: requestStatsFetch(id) puts id into the backlog or the fetch queue
\* only if the cache holds no unexpired complete record for id. When it holds
\* one, the call leaves the backlog, the pending set, the queue, the timer
\* and what was posted as they were, and changes of the cache only the
\* lastAccessed of the entry it read.
C24_CompleteRecordNotFetched ==
  [][\A pinID \in PinIDs :
       requestStatsFetch(pinID) =>
         /\ QueuedOnlyIfIncomplete(pinID)
         /\ HoldsComplete(pinID) =>
              /\ UNCHANGED contentVars
              /\ cache' = MapSet(cache, pinID,
                                 [MapGet(cache, pinID) EXCEPT !.lastAccessed = now])]_vars

\* C24 as stated: for a complete cached record the call changes nothing
C24_CompleteRecordChangesNothing ==
  [][\A pinID \in PinIDs :
       requestStatsFetch(pinID) =>
         /\ QueuedOnlyIfIncomplete(pinID)
         /\ HoldsComplete(pinID) => UNCHANGED <<contentVars, cache>>]_vars

\* a scan has read, after it was stored, the complete record of a pin: its
\* lastAccessed is now, and nothing is queued, pending or posted
C24_Witness ==
  /\ injectorReady
  /\ fetchQueue = << >>
  /\ pendingFetchRequests = << >>
  /\ pendingRequests = {}
  /\ posted = << >>
  /\ \E i \in DOMAIN cache :
       /\ Complete(cache[i].data)
       /\ cache[i].timestamp < cache[i].lastAccessed
       /\ cache[i].lastAccessed = now

(***************************************************************************)
(* Claims about the extraction of records                                  *)
(***************************************************************************)

\* record.id is a string of decimal digits only
DigitStringId(record) == record.id.kind = "string" /\ isDigits(record.id.text)

\* the defaults of a record whose source fields are all absent
DefaultsOfAbsent(pinData) ==
  /\ pinData.engagement =
       [repins |-> JsNumber(0), comments |-> JsNumber(0), shares |-> JsNumber(0), reactions |-> 0]
  /\ pinData.details.title = ""
  /\ pinData.details.description = ""
  /\ pinData.details.link = ""
  /\ pinData.details.createdAt = ""
  /\ pinData.details.originalImageUrl = ""
  /\ pinData.details.originalVideoUrl = ""
  /\ ~pinData.details.isVideo
  /\ ~pinData.externalData.bookmarked

\* C25: extractPinData(raw) never throws; it returns null if and only if
\* raw.id is missing or is not a string of decimal digits only; the record it
\* returns for a raw object with no other field has the default of each field.
C25_NullIffNoDigitStringId ==
  extracted.called =>
    /\ ~extracted.output.threw
    /\ (extracted.output.value = << >>) <=> ~DigitStringId(extracted.input)
    /\ (extracted.output.value # << >> /\ [extracted.input EXCEPT !.id = JsUndefined] = EmptyRaw) =>
         DefaultsOfAbsent(extracted.output.value[1])

RECURSIVE Occurrences(_, _)
RECURSIVE OccurrencesIn(_, _)
\* the objects of a payload that lie within the depth bound, in traversal
\* order: an object before the objects under it, properties in key order
Occurrences(obj, depth) ==
  IF depth > DepthLimit \/ obj.prim # << >> THEN << >>
  ELSE <<obj.value>> \o OccurrencesIn(obj.value.kids, depth + 1)

OccurrencesIn(kids, depth) ==
  IF kids = << >> THEN << >>
  ELSE Occurrences(Head(kids), depth) \o OccurrencesIn(Tail(kids), depth)

\* the objects with a digit-string id among them, in traversal order
PinOccurrences(data) == SelectSeq(Occurrences(data, 0), DigitStringId)

\* the record has an image URL or repins > 0
HasImageOrRepins(pinData) ==
  \/ pinData.details.originalImageUrl # ""
  \/ pinData.engagement.repins.kind = "number" /\ pinData.engagement.repins.num > 0

\* the object's record has an image URL or repins > 0
Passes(record) == HasImageOrRepins(pinDataOf(record))

\* the position of the first object with this id in occs, 0 if none
FirstOf(occs, id) ==
  IF \E i \in DOMAIN occs : occs[i].id.text = id
  THEN CHOOSE i \in DOMAIN occs : occs[i].id.text = id /\ \A j \in 1..(i - 1) : occs[j].id.text # id
  ELSE 0

\* pins holds each id at most once
EachIdOnce(pins) == \A i, j \in DOMAIN pins : pins[i].pinID = pins[j].pinID => i = j

\* pins is, in order, the record of the first object of each id in occs
FirstOccurrenceWins(pins, occs) ==
  /\ EachIdOnce(pins)
  /\ \A i \in DOMAIN pins :
       /\ FirstOf(occs, pins[i].pinID) # 0
       /\ pins[i].pinData = pinDataOf(occs[FirstOf(occs, pins[i].pinID)])
  /\ \A i, j \in DOMAIN pins :
       i < j => FirstOf(occs, pins[i].pinID) < FirstOf(occs, pins[j].pinID)

\* C26 as stated: extractAllPins returns each id at most once, in the order
\* in which the ids are first met, and the record of an id is the one of its
\* first occurrence in traversal order.
C26_FirstOccurrenceRetained ==
  (walked.called /\ ~walked.output.threw) =>
    FirstOccurrenceWins(walked.output.value, PinOccurrences(walked.input))

\* C26: extractAllPins returns each id at most once; the record of an id is
\* the one of its first occurrence, in traversal order and within the depth
\* bound, that has an image URL or repins > 0, and the ids are in the order
\* of these occurrences.
C26_FirstKeptOccurrenceRetained ==
  (walked.called /\ ~walked.output.threw) =>
    FirstOccurrenceWins(walked.output.value, SelectSeq(PinOccurrences(walked.input), Passes))

\* an id occurs twice with different records, both with an image URL or
\* repins, beside another id, and the call returned both ids
C26_Witness ==
  /\ walked.called
  /\ ~walked.output.threw
  /\ Len(walked.output.value) = 2
  /\ LET occs == SelectSeq(PinOccurrences(walked.input), Passes)
     IN \E i, j \in DOMAIN occs : i < j /\ occs[i].id = occs[j].id /\ occs[i] # occs[j]

\* C27: no record returned by extractAllPins has both an empty image URL and
\* zero repins; an object with a digit-string id, no image URL and zero
\* repins is not returned; every id of an object within the depth bound that
\* has a digit-string id and an image URL or repins > 0 is returned, once.
C27_EmptyRecordsExcluded ==
  (walked.called /\ ~walked.output.threw) =>
    LET pins == walked.output.value
        occs == PinOccurrences(walked.input)
    IN /\ \A i \in DOMAIN pins :
            ~(pins[i].pinData.details.originalImageUrl = ""
              /\ pins[i].pinData.engagement.repins = JsNumber(0))
       /\ \A k \in DOMAIN occs :
            ~Passes(occs[k]) => \A i \in DOMAIN pins : pins[i].pinData # pinDataOf(occs[k])
       /\ \A k \in DOMAIN occs :
            Passes(occs[k]) => Cardinality({i \in DOMAIN pins : pins[i].pinID = occs[k].id.text}) = 1

\* an object with no image and zero repins is left out, an object below the
\* depth bound is left out, and an object with an image is returned
C27_Witness ==
  /\ walked.called
  /\ ~walked.output.threw
  /\ Len(walked.output.value) = 1
  /\ walked.output.value[1].pinData.details.originalImageUrl # ""
  /\ \E k \in DOMAIN PinOccurrences(walked.input) :
       /\ ~Passes(PinOccurrences(walked.input)[k])
       /\ PinOccurrences(walked.input)[k].id.text # walked.output.value[1].pinID

\* an object with repins lies below the depth bound and is not returned
C27_WitnessDepth ==
  /\ walked.called
  /\ ~walked.output.threw
  /\ walked.output.value = << >>
  /\ Len(walked.input.value.kids) = 1
  /\ Len(walked.input.value.kids[1].value.kids) = 1
  /\ Len(walked.input.value.kids[1].value.kids[1].value.kids) = 1
  /\ Passes(walked.input.value.kids[1].value.kids[1].value.kids[1].value)

(***************************************************************************)
(* Claims about the interception of responses                              *)
(***************************************************************************)

\* the ids of the records of pins
IdsOf(pins) == {pins[i].pinID : i \in DOMAIN pins}

\* the records of pins
RecordsOf(pins) == {pins[i] : i \in DOMAIN pins}

\* C28: when processApiResponse unwraps the body (resource_response.data or
\* data), the records it sends are the union by id of extractAllPins of the
\* unwrapped value and extractAllPins of the body, each id exactly once;
\* when nothing is unwrapped it makes exactly one extractAllPins call.
C28_UnionOfBothPasses ==
  (hooked.ran /\ ~hooked.processed.caught) =>
    LET data == hooked.body[1]
        unwrapped == unwrap(data)
        sent == hooked.processed.sent
    IN IF unwrapped # data
       THEN /\ hooked.processed.passes = <<unwrapped, data>>
            /\ EachIdOnce(sent)
            /\ IdsOf(sent) = IdsOf(extractAllPins(unwrapped).value) \cup IdsOf(extractAllPins(data).value)
            /\ RecordsOf(sent) \subseteq
                 RecordsOf(extractAllPins(unwrapped).value) \cup RecordsOf(extractAllPins(data).value)
       ELSE /\ hooked.processed.passes = <<data>>
            /\ sent = extractAllPins(data).value

\* the body was unwrapped; one record sent is found only in the unwrapped
\* value, below the depth bound of the body, and another only in the body
C28_Witness ==
  /\ hooked.ran
  /\ ~hooked.processed.caught
  /\ Len(hooked.processed.passes) = 2
  /\ Len(hooked.processed.sent) = 2
  /\ \E i, j \in DOMAIN hooked.processed.sent :
       /\ hooked.processed.sent[i].pinID \notin IdsOf(extractAllPins(hooked.body[1]).value)
       /\ hooked.processed.sent[j].pinID \notin IdsOf(extractAllPins(unwrap(hooked.body[1])).value)

\* nothing was unwrapped and the one pass found a record
C28_WitnessOnePass ==
  /\ hooked.ran
  /\ ~hooked.processed.caught
  /\ Len(hooked.processed.passes) = 1
  /\ hooked.processed.sent # << >>

\* C29: the patched fetch settles as the original fetch does, with the same
\* Response or the same error, at the point the original settles, without
\* waiting for the read, the parse and the extraction of the cloned body.
C29_SettlesWithOriginal ==
  (hooked.via = "fetch" /\ hooked.original # "pending") => hooked.page = hooked.original

\* C30: when the body of an intercepted response is no JSON, or an exception
\* is raised while its records are unwrapped, extracted or routed, the
\* patched fetch does not reject and the load listener does not throw: the
\* page gets its response, and no record is sent for that response.
C30_FailureSendsNothing ==
  (/\ hooked.phase = "done"
   /\ hooked.api
   /\ hooked.original = "response"
   /\ hooked.body = << >> \/ hooked.processed.caught) =>
    /\ hooked.page = "response"
    /\ ~hooked.thrown
    /\ hooked.processed.sent = << >>

(***************************************************************************)
(* Claims about the channel between the content script and the injector    *)
(***************************************************************************)

\* C31: every message posted by either side (pin-stats and injector-ready by
\* the injector, fetch-stats by the content script) is posted with the
\* page's own origin as targetOrigin, never with the wildcard '*'.
C31_NeverWildcard ==
  wire.type # "none" => wire.targetOrigin = "window.origin"

\* C34: the content script never posts fetch-stats before the injector's
\* listener is installed: the injector posts injector-ready once, after it
\* has installed its listener, and the content script posts fetch-stats only
\* after it has received injector-ready.
C34_ReadyBeforeFetchStats ==
  /\ provider.signals <= 1
  /\ provider.signals > 0 => provider.listening
  /\ injectorReady => provider.signals > 0
  /\ (posted # << >> \/ wire.type = "fetch-stats") => (injectorReady /\ provider.listening)

\* ids held back before injector-ready were posted in a fetch-stats message
\* after it
C34_Witness ==
  /\ wire.type = "fetch-stats"
  /\ posted # << >>
  /\ provider.signals = 1
  /\ cache = << >>

\* C32: every id placed in fetchQueue is eventually posted in a fetch-stats
\* message once the timers fire, with no further requestStatsFetch call
\* needed; ids beyond the first MAX_BATCH_SIZE are posted by the continuation
\* the timer callback sets.
C32_QueuedEventuallyPosted ==
  \A pinID \in PinIDs :
    (pinID \in Range(fetchQueue)) ~> (pinID \in Range(posted) /\ pinID \notin Range(fetchQueue))

\* C33: every id added to pendingRequests is removed from it at some later
\* time, also when the fetch made for the id settles without a record
\* (429, a status that is not ok, a payload without a record, an exception)
C33_PendingEventuallyRemoved ==
  \A pinID \in PinIDs : (pinID \in pendingRequests) ~> (pinID \notin pendingRequests)


\* C35: a call of requestStatsFetch that queues an id posts nothing and
\* leaves the debounce timer armed, so the ids of the calls of one debounce
\* window pile up in fetchQueue; the flush of the timer posts one
\* fetch-stats message with the first ids of the queue, at least one and at
\* most MAX_BATCH_SIZE of them (all of them if the queue holds no more than
\* that), and fetchBatchParallel goes through exactly one window for it
C35_OneMessageOneWindow ==
  [][/\ Len(fetchQueue') > Len(fetchQueue) =>
          /\ posted' = posted
          /\ fetchTimer'
          /\ SubSeq(fetchQueue', 1, Len(fetchQueue)) = fetchQueue
     /\ (fetchTimer /\ ~fetchTimer' /\ fetchQueue # << >>) =>
          /\ Len(posted') >= 1
          /\ Len(posted') <= MAX_BATCH_SIZE
          /\ posted' \o fetchQueue' = fetchQueue
          /\ Len(fetchQueue) <= MAX_BATCH_SIZE => fetchQueue' = << >>
          /\ windows(posted') = 1]_vars

\* a flush has posted a full batch of ids queued within one window and has
\* left the rest in the queue
C35_Witness ==
  /\ Len(posted) = MAX_BATCH_SIZE
  /\ fetchQueue # << >>
  /\ continuation
  /\ ~fetchTimer


\* C38: once the cache holds a complete record for an id (repins > 0 or
\* comments > 0), no step replaces it with an incomplete record while the
\* entry stays in the cache unexpired
C38_CompleteRecordKept ==
  [][\A pinID \in PinIDs :
       (/\ getValue(cache, pinID, now) # Undefined
        /\ hasValidStats(getValue(cache, pinID, now)[1])
        /\ getValue(cache', pinID, now') # Undefined)
       => hasValidStats(getValue(cache', pinID, now')[1])]_vars

\* C40: fetchQueue never holds the same id twice and no fetch-stats message
\* lists an id more than once
C40_NoIdTwice ==
  /\ NoDuplicates(fetchQueue)
  /\ NoDuplicates(posted)

----------------------------------------------------------------------------
(***************************************************************************)
(* Claims about the pauses of fetchBatchParallel                           *)
(***************************************************************************)

\* every call of the window of b has settled
WindowSettled(b) == \A p \in slice(b) : b.calls[p].stage = "settled"

\* an outcome of the window of b was rate-limited
WindowRateLimited(b) == \E p \in slice(b) : b.calls[p].rateLimited

\* b has ids beyond its window
HasNextWindow(b) == b.i + CONCURRENT_LIMIT < Len(b.pinIDs)

\* C36: once window N of an invocation has settled and a window N+1 is to
\* come, fetchBatchParallel awaits a timeout of RATE_LIMIT_BACKOFF_MS
\* (1000 ms) if an outcome of window N was rate-limited and of BATCH_DELAY_MS
\* (100 ms) otherwise, and as long as that timeout has not run no id of a
\* later window has been passed to fetchPinStats
C36_WaitBetweenWindows ==
  \A k \in DOMAIN batches :
    LET b == batches[k]
    IN /\ (WindowSettled(b) /\ HasNextWindow(b)) =>
            waitMs(b) = IF WindowRateLimited(b) THEN RATE_LIMIT_BACKOFF_MS ELSE BATCH_DELAY_MS
       /\ \A p \in DOMAIN b.pinIDs : p > b.i + CONCURRENT_LIMIT => b.calls[p] = NotCalled
       /\ Len(b.handed) <= b.i + CONCURRENT_LIMIT

\* a window with a rate-limited outcome has settled, the backoff is awaited
\* and the next window has not begun
C36_Witness ==
  \E k \in DOMAIN batches :
    /\ WindowSettled(batches[k])
    /\ WindowRateLimited(batches[k])
    /\ HasNextWindow(batches[k])
    /\ waitMs(batches[k]) = RATE_LIMIT_BACKOFF_MS


----------------------------------------------------------------------------
(***************************************************************************)
(* Claims about the flush and the reset of the persisted copy              *)
(***************************************************************************)

\* C37: syncToStorage first removes from the cache every entry with
\* now - timestamp > CACHE_TTL_MS; the map it hands to
\* chrome.storage.local.set is the cache after that sweep, so right after a
\* flush neither the cache nor, if the write succeeded, the persisted copy
\* holds an entry that is expired at the time of the flush
C37_FlushSweepsFirst ==
  result.op = "syncToStorage" =>
    /\ \A i \in DOMAIN cache : ~(now - cache[i].timestamp > CACHE_TTL_MS)
    /\ result.found =>
         /\ storage.present
         /\ storage.entries = toStore(cache)
         /\ \A i \in DOMAIN storage.entries :
              ~(now - storage.entries[i].val.timestamp > CACHE_TTL_MS)

\* a flush has swept an expired entry and has persisted what was left
C37_Witness ==
  /\ result.op = "syncToStorage"
  /\ result.found
  /\ result.removed > 0
  /\ storage.present
  /\ storage.entries # << >>


\* C39: once the popup's clearAll has removed the persisted copy, the next
\* step, in particular the periodic flush of the content script, leaves the
\* persisted copy free of the records the content script had cached before
\* the reset
C39_ResetDurable ==
  [][(result.op = "popupClearAll" /\ result.found) =>
       \A i \in DOMAIN storage'.entries :
         \A j \in DOMAIN cache :
           ~(/\ storage'.entries[i].key = cache[j].key
             /\ storage'.entries[i].val.timestamp = cache[j].timestamp)]_vars

=============================================================================
